---- MODULE Spec2Model ----
(***************************************************************************)
(* Model of contracts/Fundme.sol: a pooled treasury whose members submit,  *)
(* approve, revoke and execute projects (payments) and governance          *)
(* proposals, with quorum judged by approval count or by contribution      *)
(* weight.  A call of the contract is one step of the model; the step of   *)
(* executeProject includes whatever the call target does before it         *)
(* returns, calls back into the contract among it.  A reverted call leaves *)
(* the storage and the balance as they were.                               *)
(***************************************************************************)
EXTENDS Integers, Sequences, FiniteSets, TLC

(* ------------------------------ bounds --------------------------------- *)
\* width of the unsigned machine word standing for uint256
WordBits == 10
\* at most this many projects / proposals are submitted
MaxProjects == 1
MaxProposals == 1
\* cap on the ether ever held by / contributed to the contract
MaxFunds == 2

MaxUint == 2 ^ WordBits - 1

(* ----------------------------- universe -------------------------------- *)
ZeroAddress == "0x0"
\* externally owned accounts that send transactions
Addr == {"A", "B", "C"}
\* a contract whose fallback always reverts
Rejecting == {"R"}
\* a contract whose fallback calls back into this contract before it returns;
\* it runs only while executeProject has handed control to it
Contracts == {"T"}
AnyAddr == Addr \cup Rejecting \cup Contracts \cup {ZeroAddress}

OK == "ok"
Panic == "panic 0x11"

VARIABLES
  members,                      \* address[] members
  isMember,                     \* mapping(address => bool)
  contributionsOf,              \* mapping(address => uint256)
  totalContributions,
  percentageApprovalsRequired,
  numApprovalsRequired,
  votingByWeight,
  isApproveed,                  \* set of <<txIndex, address>> mapped to true
  isProposalApproveed,          \* set of <<proposalId, address>> mapped to true
  projects,                     \* Project[]  (index i of the code is i+1 here)
  proposals,                    \* Proposal[]
  balance,                      \* address(this).balance
  received,                     \* history: the wei sent to receive() so far
  forced                        \* history: the wei credited with no call

vars == <<members, isMember, contributionsOf, totalContributions,
          percentageApprovalsRequired, numApprovalsRequired,
          votingByWeight, isApproveed, isProposalApproveed,
          projects, proposals, balance, received, forced>>

\* the contract's storage and balance as one value
State ==
  [members |-> members, isMember |-> isMember,
   contributionsOf |-> contributionsOf,
   totalContributions |-> totalContributions,
   percentageApprovalsRequired |-> percentageApprovalsRequired,
   numApprovalsRequired |-> numApprovalsRequired,
   votingByWeight |-> votingByWeight,
   isApproveed |-> isApproveed,
   isProposalApproveed |-> isProposalApproveed,
   projects |-> projects, proposals |-> proposals, balance |-> balance]

\* outcome of a call: a revert keeps the state the call started from
Revert(s, reason) == [err |-> reason, s |-> s]
Success(s) == [err |-> OK, s |-> s]

(* ----------------------------- modifiers ------------------------------- *)
\* mutation: the membership check is dropped
onlyMember_Dropped(s, sender) == TRUE

onlyMember(s, sender) == s.isMember[sender]

txExists(s, txIndex) == txIndex < Len(s.projects)

proposalExists(s, proposalId) == proposalId < Len(s.proposals)

\* mutation: the already-executed guard is dropped
notExecuted_Dropped(s, txIndex) == TRUE

notExecuted(s, txIndex) == ~s.projects[txIndex + 1].executed

\* mutation: the already-approved guard is dropped
notApproveed_Dropped(s, txIndex, sender) == TRUE

notApproveed(s, txIndex, sender) == <<txIndex, sender>> \notin s.isApproveed

\* mutation: the already-executed guard of proposals is dropped
notProposalExecuted_Dropped(s, proposalId) == TRUE

notProposalExecuted(s, proposalId) == ~s.proposals[proposalId + 1].executed

notProposalApproveed(s, proposalId, sender) ==
  <<proposalId, sender>> \notin s.isProposalApproveed

(* ---------------------------- constructor ------------------------------ *)
\* mutation: the zero address is accepted as a member
RECURSIVE ConstructorLoop_ZeroAccepted(_, _, _)
ConstructorLoop_ZeroAccepted(s, ms, i) ==
  IF i > Len(ms) THEN Success(s)
  ELSE IF s.isMember[ms[i]] THEN Revert(s, "member not unique")
  ELSE ConstructorLoop_ZeroAccepted(
         [s EXCEPT !.isMember[ms[i]] = TRUE,
                   !.members = Append(@, ms[i])], ms, i + 1)

RECURSIVE ConstructorLoop(_, _, _)
ConstructorLoop(s, ms, i) ==
  IF i > Len(ms) THEN Success(s)
  ELSE IF ms[i] = ZeroAddress THEN Revert(s, "invalid member")
  ELSE IF s.isMember[ms[i]] THEN Revert(s, "member not unique")
  ELSE ConstructorLoop([s EXCEPT !.isMember[ms[i]] = TRUE,
                                 !.members = Append(@, ms[i])], ms, i + 1)

EmptyState ==
  [members |-> <<>>, isMember |-> [a \in AnyAddr |-> FALSE],
   contributionsOf |-> [a \in AnyAddr |-> 0],
   totalContributions |-> 0,
   percentageApprovalsRequired |-> 0,
   numApprovalsRequired |-> 0,
   votingByWeight |-> FALSE,
   isApproveed |-> {}, isProposalApproveed |-> {},
   projects |-> <<>>, proposals |-> <<>>, balance |-> 0]

Constructor(ms, num, pct, byWeight) ==
  IF ~(Len(ms) > 0) THEN Revert(EmptyState, "members required")
  ELSE IF ~(pct >= 0 /\ pct <= 100)
    THEN Revert(EmptyState, "invalid number of required percentage approvals")
  ELSE IF ~(num >= 0 /\ num <= Len(ms))
    THEN Revert(EmptyState, "invalid number of required approvals")
  ELSE LET r == ConstructorLoop(EmptyState, ms, 1) IN
    IF r.err # OK THEN Revert(EmptyState, r.err)
    ELSE Success([r.s EXCEPT !.numApprovalsRequired = num,
                             !.percentageApprovalsRequired = pct,
                             !.votingByWeight = byWeight])

(* ------------------------------ receive -------------------------------- *)
\* mutation: the running total is not updated
Receive_TotalForgotten(s, sender, value) ==
  LET s1 == [s EXCEPT !.balance = @ + value] IN
  IF s.isMember[sender]
  THEN IF s.contributionsOf[sender] + value > MaxUint
       THEN Revert(s, Panic)
       ELSE Success([s1 EXCEPT !.contributionsOf[sender] = @ + value])
  ELSE Success(s1)

\* mutation: a deposit is credited whoever sends it
Receive_CreditsAnyone(s, sender, value) ==
  LET s1 == [s EXCEPT !.balance = @ + value] IN
  IF s.contributionsOf[sender] + value > MaxUint
     \/ s.totalContributions + value > MaxUint
  THEN Revert(s, Panic)
  ELSE Success([s1 EXCEPT !.contributionsOf[sender] = @ + value,
                          !.totalContributions = @ + value])

\* mutation: a member's deposit is added to the weight of every pending
\* project the member has approved
Receive_ReweighsApprovals(s, sender, value) ==
  LET s1 == [s EXCEPT !.balance = @ + value] IN
  IF s.isMember[sender]
  THEN IF s.contributionsOf[sender] + value > MaxUint
         \/ s.totalContributions + value > MaxUint
       THEN Revert(s, Panic)
       ELSE Success([s1 EXCEPT
              !.contributionsOf[sender] = @ + value,
              !.totalContributions = @ + value,
              !.projects = [i \in 1..Len(s.projects) |->
                 IF <<i - 1, sender>> \in s.isApproveed /\ ~s.projects[i].executed
                 THEN [s.projects[i] EXCEPT !.weight = @ + value]
                 ELSE s.projects[i]]])
  ELSE Success(s1)

Receive(s, sender, value) ==
  LET s1 == [s EXCEPT !.balance = @ + value] IN
  IF s.isMember[sender]
  THEN IF s.contributionsOf[sender] + value > MaxUint
         \/ s.totalContributions + value > MaxUint
       THEN Revert(s, Panic)
       ELSE Success([s1 EXCEPT !.contributionsOf[sender] = @ + value,
                               !.totalContributions = @ + value])
  ELSE Success(s1)

\* mutation: the notification carries the balance before the deposit
ReceiveEvents_BalanceBefore(s, sender, value) ==
  IF Receive(s, sender, value).err # OK THEN <<>>
  ELSE <<[event |-> "Deposit", sender |-> sender, amount |-> value,
          balance |-> s.balance]>>

\* the notifications receive() emits: address(this).balance already holds the
\* value sent with the call; a reverted call emits nothing
ReceiveEvents(s, sender, value) ==
  IF Receive(s, sender, value).err # OK THEN <<>>
  ELSE <<[event |-> "Deposit", sender |-> sender, amount |-> value,
          balance |-> s.balance + value]>>

(* ------------------------------ projects ------------------------------- *)
\* mutation: the new record is put in front of the log
submitProject_Prepended(s, sender, to, value, data) ==
  IF ~onlyMember(s, sender) THEN Revert(s, "not member")
  ELSE Success([s EXCEPT !.projects =
         <<[to |-> to, value |-> value, data |-> data,
            executed |-> FALSE, numApprovals |-> 0, weight |-> 0]>> \o @])

submitProject(s, sender, to, value, data) ==
  IF ~onlyMember(s, sender) THEN Revert(s, "not member")
  ELSE Success([s EXCEPT !.projects =
         Append(@, [to |-> to, value |-> value, data |-> data,
                    executed |-> FALSE, numApprovals |-> 0, weight |-> 0])])

\* mutation: an approval sets the mark and the weight but is not counted
approveProject_CountForgotten(s, sender, txIndex) ==
  IF ~onlyMember(s, sender) THEN Revert(s, "not member")
  ELSE IF ~txExists(s, txIndex) THEN Revert(s, "tx does not exist")
  ELSE IF ~notExecuted(s, txIndex) THEN Revert(s, "tx already executed")
  ELSE IF ~notApproveed(s, txIndex, sender) THEN Revert(s, "tx already approved")
  ELSE LET project == s.projects[txIndex + 1] IN
    IF project.weight + s.contributionsOf[sender] > MaxUint
    THEN Revert(s, Panic)
    ELSE Success([s EXCEPT
           !.projects[txIndex + 1].weight = @ + s.contributionsOf[sender],
           !.isApproveed = @ \cup {<<txIndex, sender>>}])

approveProject(s, sender, txIndex) ==
  IF ~onlyMember(s, sender) THEN Revert(s, "not member")
  ELSE IF ~txExists(s, txIndex) THEN Revert(s, "tx does not exist")
  ELSE IF ~notExecuted(s, txIndex) THEN Revert(s, "tx already executed")
  ELSE IF ~notApproveed(s, txIndex, sender) THEN Revert(s, "tx already approved")
  ELSE LET project == s.projects[txIndex + 1] IN
    IF project.numApprovals + 1 > MaxUint
       \/ project.weight + s.contributionsOf[sender] > MaxUint
    THEN Revert(s, Panic)
    ELSE Success([s EXCEPT
           !.projects[txIndex + 1].numApprovals = @ + 1,
           !.projects[txIndex + 1].weight = @ + s.contributionsOf[sender],
           !.isApproveed = @ \cup {<<txIndex, sender>>}])

\* mutation: the weight test is inclusive
ProjectQuorum_WeightInclusive(s, project) ==
  IF s.votingByWeight
  THEN IF s.totalContributions * s.percentageApprovalsRequired > MaxUint
       THEN Panic
       ELSE IF project.weight >=
                 (s.totalContributions * s.percentageApprovalsRequired) \div 100
            THEN OK
            ELSE "cannot execute tx - voting by weight"
  ELSE IF project.numApprovals >= s.numApprovalsRequired
       THEN OK
       ELSE "cannot execute tx - voting by count"

\* mutation: the count test also asks for at least one approval
ProjectQuorum_NeedsApproval(s, project) ==
  IF s.votingByWeight
  THEN IF s.totalContributions * s.percentageApprovalsRequired > MaxUint
       THEN Panic
       ELSE IF project.weight >
                 (s.totalContributions * s.percentageApprovalsRequired) \div 100
            THEN OK
            ELSE "cannot execute tx - voting by weight"
  ELSE IF project.numApprovals >= s.numApprovalsRequired
          /\ project.numApprovals > 0
       THEN OK
       ELSE "cannot execute tx - voting by count"

\* mutation: the division of the weight test rounds up
ProjectQuorum_RoundsUp(s, project) ==
  IF s.votingByWeight
  THEN IF s.totalContributions * s.percentageApprovalsRequired > MaxUint
       THEN Panic
       ELSE IF project.weight >
                 (s.totalContributions * s.percentageApprovalsRequired + 99)
                   \div 100
            THEN OK
            ELSE "cannot execute tx - voting by weight"
  ELSE IF project.numApprovals >= s.numApprovalsRequired
       THEN OK
       ELSE "cannot execute tx - voting by count"

\* the quorum test of executeProject; "ok" when it passes
ProjectQuorum(s, project) ==
  IF s.votingByWeight
  THEN IF s.totalContributions * s.percentageApprovalsRequired > MaxUint
       THEN Panic
       ELSE IF project.weight >
                 (s.totalContributions * s.percentageApprovalsRequired) \div 100
            THEN OK
            ELSE "cannot execute tx - voting by weight"
  ELSE IF project.numApprovals >= s.numApprovalsRequired
       THEN OK
       ELSE "cannot execute tx - voting by count"

\* what project.to.call{value: project.value}(project.data) needs to succeed
\* apart from the code of the target: the balance covers the value and the
\* target is not one that always reverts
CallSucceeds(s, project) ==
  /\ project.value <= s.balance
  /\ project.to \notin Rejecting

\* mutation: the approval mark is left set
revokeApproval_MarkKept(s, sender, txIndex) ==
  IF ~onlyMember(s, sender) THEN Revert(s, "not member")
  ELSE IF ~txExists(s, txIndex) THEN Revert(s, "tx does not exist")
  ELSE IF ~notExecuted(s, txIndex) THEN Revert(s, "tx already executed")
  ELSE IF ~(<<txIndex, sender>> \in s.isApproveed)
    THEN Revert(s, "tx not approved")
  ELSE LET project == s.projects[txIndex + 1] IN
    IF project.numApprovals - 1 < 0
       \/ project.weight - s.contributionsOf[sender] < 0
    THEN Revert(s, Panic)
    ELSE Success([s EXCEPT
           !.projects[txIndex + 1].numApprovals = @ - 1,
           !.projects[txIndex + 1].weight = @ - s.contributionsOf[sender]])

\* mutation: the subtractions are unchecked and wrap around
revokeApproval_Unchecked(s, sender, txIndex) ==
  IF ~onlyMember(s, sender) THEN Revert(s, "not member")
  ELSE IF ~txExists(s, txIndex) THEN Revert(s, "tx does not exist")
  ELSE IF ~notExecuted(s, txIndex) THEN Revert(s, "tx already executed")
  ELSE IF ~(<<txIndex, sender>> \in s.isApproveed)
    THEN Revert(s, "tx not approved")
  ELSE Success([s EXCEPT
         !.projects[txIndex + 1].numApprovals = (@ - 1) % (MaxUint + 1),
         !.projects[txIndex + 1].weight =
            (@ - s.contributionsOf[sender]) % (MaxUint + 1),
         !.isApproveed = @ \ {<<txIndex, sender>>}])

\* mutation: the revoked approval's weight is left on the project
revokeApproval_WeightKept(s, sender, txIndex) ==
  IF ~onlyMember(s, sender) THEN Revert(s, "not member")
  ELSE IF ~txExists(s, txIndex) THEN Revert(s, "tx does not exist")
  ELSE IF ~notExecuted(s, txIndex) THEN Revert(s, "tx already executed")
  ELSE IF ~(<<txIndex, sender>> \in s.isApproveed)
    THEN Revert(s, "tx not approved")
  ELSE LET project == s.projects[txIndex + 1] IN
    IF project.numApprovals - 1 < 0
    THEN Revert(s, Panic)
    ELSE Success([s EXCEPT
           !.projects[txIndex + 1].numApprovals = @ - 1,
           !.isApproveed = @ \ {<<txIndex, sender>>}])

revokeApproval(s, sender, txIndex) ==
  IF ~onlyMember(s, sender) THEN Revert(s, "not member")
  ELSE IF ~txExists(s, txIndex) THEN Revert(s, "tx does not exist")
  ELSE IF ~notExecuted(s, txIndex) THEN Revert(s, "tx already executed")
  ELSE IF ~(<<txIndex, sender>> \in s.isApproveed)
    THEN Revert(s, "tx not approved")
  ELSE LET project == s.projects[txIndex + 1] IN
    IF project.numApprovals - 1 < 0
       \/ project.weight - s.contributionsOf[sender] < 0
    THEN Revert(s, Panic)
    ELSE Success([s EXCEPT
           !.projects[txIndex + 1].numApprovals = @ - 1,
           !.projects[txIndex + 1].weight = @ - s.contributionsOf[sender],
           !.isApproveed = @ \ {<<txIndex, sender>>}])

(* ------------------------------ proposals ------------------------------ *)
\* mutation: a changeParameter proposal takes effect when it is submitted
submitProposal_AppliedAtOnce(s, sender, proposalType, newMember, newPct, newNum, newByWeight) ==
  IF ~onlyMember(s, sender) THEN Revert(s, "not member")
  ELSE LET s1 == [s EXCEPT !.proposals =
         Append(@, [proposalType |-> proposalType, newMember |-> newMember,
                    newPercentageApprovalsRequired |-> newPct,
                    newNumApprovalsRequired |-> newNum,
                    newVotingByWeight |-> newByWeight,
                    numApprovals |-> 0, weight |-> 0, executed |-> FALSE])]
       IN IF proposalType = "changeParameter"
          THEN Success([s1 EXCEPT !.percentageApprovalsRequired = newPct,
                                  !.numApprovalsRequired = newNum,
                                  !.votingByWeight = newByWeight])
          ELSE Success(s1)

submitProposal(s, sender, proposalType, newMember, newPct, newNum, newByWeight) ==
  IF ~onlyMember(s, sender) THEN Revert(s, "not member")
  ELSE Success([s EXCEPT !.proposals =
         Append(@, [proposalType |-> proposalType, newMember |-> newMember,
                    newPercentageApprovalsRequired |-> newPct,
                    newNumApprovalsRequired |-> newNum,
                    newVotingByWeight |-> newByWeight,
                    numApprovals |-> 0, weight |-> 0, executed |-> FALSE])])

\* mutation: the approval is counted but the approval mark is not set
approveProposal_MarkForgotten(s, sender, proposalId) ==
  IF ~onlyMember(s, sender) THEN Revert(s, "not member")
  ELSE IF ~proposalExists(s, proposalId)
    THEN Revert(s, "proposal does not exist")
  ELSE IF ~notProposalExecuted(s, proposalId)
    THEN Revert(s, "proposal already executed")
  ELSE IF ~notProposalApproveed(s, proposalId, sender)
    THEN Revert(s, "proposal already approved")
  ELSE LET proposal == s.proposals[proposalId + 1] IN
    IF proposal.numApprovals + 1 > MaxUint
       \/ proposal.weight + s.contributionsOf[sender] > MaxUint
    THEN Revert(s, Panic)
    ELSE Success([s EXCEPT
           !.proposals[proposalId + 1].numApprovals = @ + 1,
           !.proposals[proposalId + 1].weight = @ + s.contributionsOf[sender]])

\* mutation: projects and proposals share one mapping of approval marks
approveProposal_SharedLedger(s, sender, proposalId) ==
  IF ~onlyMember(s, sender) THEN Revert(s, "not member")
  ELSE IF ~proposalExists(s, proposalId)
    THEN Revert(s, "proposal does not exist")
  ELSE IF ~notProposalExecuted(s, proposalId)
    THEN Revert(s, "proposal already executed")
  ELSE IF ~notProposalApproveed(s, proposalId, sender)
    THEN Revert(s, "proposal already approved")
  ELSE LET proposal == s.proposals[proposalId + 1] IN
    IF proposal.numApprovals + 1 > MaxUint
       \/ proposal.weight + s.contributionsOf[sender] > MaxUint
    THEN Revert(s, Panic)
    ELSE Success([s EXCEPT
           !.proposals[proposalId + 1].numApprovals = @ + 1,
           !.proposals[proposalId + 1].weight = @ + s.contributionsOf[sender],
           !.isProposalApproveed = @ \cup {<<proposalId, sender>>},
           !.isApproveed = @ \cup {<<proposalId, sender>>}])

approveProposal(s, sender, proposalId) ==
  IF ~onlyMember(s, sender) THEN Revert(s, "not member")
  ELSE IF ~proposalExists(s, proposalId)
    THEN Revert(s, "proposal does not exist")
  ELSE IF ~notProposalExecuted(s, proposalId)
    THEN Revert(s, "proposal already executed")
  ELSE IF ~notProposalApproveed(s, proposalId, sender)
    THEN Revert(s, "proposal already approved")
  ELSE LET proposal == s.proposals[proposalId + 1] IN
    IF proposal.numApprovals + 1 > MaxUint
       \/ proposal.weight + s.contributionsOf[sender] > MaxUint
    THEN Revert(s, Panic)
    ELSE Success([s EXCEPT
           !.proposals[proposalId + 1].numApprovals = @ + 1,
           !.proposals[proposalId + 1].weight = @ + s.contributionsOf[sender],
           !.isProposalApproveed = @ \cup {<<proposalId, sender>>}])

\* mutation: the count test is strict
ProposalQuorum_CountStrict(s, proposal) ==
  IF s.votingByWeight
  THEN IF s.totalContributions * s.percentageApprovalsRequired > MaxUint
       THEN Panic
       ELSE IF proposal.weight >
                 (s.totalContributions * s.percentageApprovalsRequired) \div 100
            THEN OK
            ELSE "cannot execute proposal - voting by weight"
  ELSE IF proposal.numApprovals > s.numApprovalsRequired
       THEN OK
       ELSE "cannot execute proposal - voting by count"

\* mutation: the count rule is applied whatever the mode
ProposalQuorum_IgnoresMode(s, proposal) ==
  IF proposal.numApprovals >= s.numApprovalsRequired
  THEN OK
  ELSE "cannot execute proposal - voting by count"

\* mutation: the weight test of proposals is inclusive
ProposalQuorum_WeightInclusive(s, proposal) ==
  IF s.votingByWeight
  THEN IF s.totalContributions * s.percentageApprovalsRequired > MaxUint
       THEN Panic
       ELSE IF proposal.weight >=
                 (s.totalContributions * s.percentageApprovalsRequired) \div 100
            THEN OK
            ELSE "cannot execute proposal - voting by weight"
  ELSE IF proposal.numApprovals >= s.numApprovalsRequired
       THEN OK
       ELSE "cannot execute proposal - voting by count"

\* the quorum test of executeProposal; "ok" when it passes
ProposalQuorum(s, proposal) ==
  IF s.votingByWeight
  THEN IF s.totalContributions * s.percentageApprovalsRequired > MaxUint
       THEN Panic
       ELSE IF proposal.weight >
                 (s.totalContributions * s.percentageApprovalsRequired) \div 100
            THEN OK
            ELSE "cannot execute proposal - voting by weight"
  ELSE IF proposal.numApprovals >= s.numApprovalsRequired
       THEN OK
       ELSE "cannot execute proposal - voting by count"

\* mutation: the last element is dropped without taking the removed one's place
RemoveFromMembers_PopOnly(ms, who) ==
  IF \E i \in 1..Len(ms) : ms[i] = who
  THEN SubSeq(ms, 1, Len(ms) - 1)
  ELSE ms

\* the loop of the removeMember branch: overwrite the first occurrence with
\* the last element and pop
RemoveFromMembers(ms, who) ==
  IF \E i \in 1..Len(ms) : ms[i] = who
  THEN LET i == CHOOSE k \in 1..Len(ms) :
                  ms[k] = who /\ \A j \in 1..(k - 1) : ms[j] # who
       IN SubSeq([ms EXCEPT ![i] = ms[Len(ms)]], 1, Len(ms) - 1)
  ELSE ms

\* mutation: removing a member also forgets the member's contribution
executeProposal_ContributionCleared(s, sender, proposalId) ==
  IF ~onlyMember(s, sender) THEN Revert(s, "not member")
  ELSE IF ~proposalExists(s, proposalId)
    THEN Revert(s, "proposal does not exist")
  ELSE IF ~notProposalExecuted(s, proposalId)
    THEN Revert(s, "proposal already executed")
  ELSE LET proposal == s.proposals[proposalId + 1]
           q == ProposalQuorum(s, proposal)
           done(t) == Success([t EXCEPT !.proposals[proposalId + 1].executed = TRUE])
       IN
    IF q # OK THEN Revert(s, q)
    ELSE IF proposal.proposalType = "addMember" THEN
      IF s.isMember[proposal.newMember] THEN Revert(s, "member already exists")
      ELSE done([s EXCEPT !.isMember[proposal.newMember] = TRUE,
                          !.members = Append(@, proposal.newMember)])
    ELSE IF proposal.proposalType = "removeMember" THEN
      IF ~s.isMember[proposal.newMember] THEN Revert(s, "member does not exist")
      ELSE done([s EXCEPT !.isMember[proposal.newMember] = FALSE,
                          !.members = RemoveFromMembers(@, proposal.newMember),
                          !.totalContributions =
                             @ - s.contributionsOf[proposal.newMember],
                          !.contributionsOf[proposal.newMember] = 0])
    ELSE IF proposal.proposalType = "changeParameter" THEN
      done([s EXCEPT
        !.percentageApprovalsRequired = proposal.newPercentageApprovalsRequired,
        !.numApprovalsRequired = proposal.newNumApprovalsRequired,
        !.votingByWeight = proposal.newVotingByWeight])
    ELSE done(s)

\* mutation: an added member is flagged but not appended to the list
executeProposal_AddNotListed(s, sender, proposalId) ==
  IF ~onlyMember(s, sender) THEN Revert(s, "not member")
  ELSE IF ~proposalExists(s, proposalId)
    THEN Revert(s, "proposal does not exist")
  ELSE IF ~notProposalExecuted(s, proposalId)
    THEN Revert(s, "proposal already executed")
  ELSE LET proposal == s.proposals[proposalId + 1]
           q == ProposalQuorum(s, proposal)
           done(t) == Success([t EXCEPT !.proposals[proposalId + 1].executed = TRUE])
       IN
    IF q # OK THEN Revert(s, q)
    ELSE IF proposal.proposalType = "addMember" THEN
      IF s.isMember[proposal.newMember] THEN Revert(s, "member already exists")
      ELSE done([s EXCEPT !.isMember[proposal.newMember] = TRUE])
    ELSE IF proposal.proposalType = "removeMember" THEN
      IF ~s.isMember[proposal.newMember] THEN Revert(s, "member does not exist")
      ELSE done([s EXCEPT !.isMember[proposal.newMember] = FALSE,
                          !.members = RemoveFromMembers(@, proposal.newMember)])
    ELSE IF proposal.proposalType = "changeParameter" THEN
      done([s EXCEPT
        !.percentageApprovalsRequired = proposal.newPercentageApprovalsRequired,
        !.numApprovalsRequired = proposal.newNumApprovalsRequired,
        !.votingByWeight = proposal.newVotingByWeight])
    ELSE done(s)

\* mutation: the duplicate-member check is dropped
executeProposal_DuplicateAccepted(s, sender, proposalId) ==
  IF ~onlyMember(s, sender) THEN Revert(s, "not member")
  ELSE IF ~proposalExists(s, proposalId)
    THEN Revert(s, "proposal does not exist")
  ELSE IF ~notProposalExecuted(s, proposalId)
    THEN Revert(s, "proposal already executed")
  ELSE LET proposal == s.proposals[proposalId + 1]
           q == ProposalQuorum(s, proposal)
           done(t) == Success([t EXCEPT !.proposals[proposalId + 1].executed = TRUE])
       IN
    IF q # OK THEN Revert(s, q)
    ELSE IF proposal.proposalType = "addMember" THEN
      done([s EXCEPT !.isMember[proposal.newMember] = TRUE,
                     !.members = Append(@, proposal.newMember)])
    ELSE IF proposal.proposalType = "removeMember" THEN
      IF ~s.isMember[proposal.newMember] THEN Revert(s, "member does not exist")
      ELSE done([s EXCEPT !.isMember[proposal.newMember] = FALSE,
                          !.members = RemoveFromMembers(@, proposal.newMember)])
    ELSE IF proposal.proposalType = "changeParameter" THEN
      done([s EXCEPT
        !.percentageApprovalsRequired = proposal.newPercentageApprovalsRequired,
        !.numApprovalsRequired = proposal.newNumApprovalsRequired,
        !.votingByWeight = proposal.newVotingByWeight])
    ELSE done(s)

\* mutation: new parameters are validated as the constructor validates them
executeProposal_ParametersValidated(s, sender, proposalId) ==
  IF ~onlyMember(s, sender) THEN Revert(s, "not member")
  ELSE IF ~proposalExists(s, proposalId)
    THEN Revert(s, "proposal does not exist")
  ELSE IF ~notProposalExecuted(s, proposalId)
    THEN Revert(s, "proposal already executed")
  ELSE LET proposal == s.proposals[proposalId + 1]
           q == ProposalQuorum(s, proposal)
           done(t) == Success([t EXCEPT !.proposals[proposalId + 1].executed = TRUE])
       IN
    IF q # OK THEN Revert(s, q)
    ELSE IF proposal.proposalType = "addMember" THEN
      IF s.isMember[proposal.newMember] THEN Revert(s, "member already exists")
      ELSE done([s EXCEPT !.isMember[proposal.newMember] = TRUE,
                          !.members = Append(@, proposal.newMember)])
    ELSE IF proposal.proposalType = "removeMember" THEN
      IF ~s.isMember[proposal.newMember] THEN Revert(s, "member does not exist")
      ELSE done([s EXCEPT !.isMember[proposal.newMember] = FALSE,
                          !.members = RemoveFromMembers(@, proposal.newMember)])
    ELSE IF proposal.proposalType = "changeParameter" THEN
      IF ~(proposal.newPercentageApprovalsRequired <= 100)
        THEN Revert(s, "invalid number of required percentage approvals")
      ELSE IF ~(proposal.newNumApprovalsRequired <= Len(s.members))
        THEN Revert(s, "invalid number of required approvals")
      ELSE done([s EXCEPT
        !.percentageApprovalsRequired = proposal.newPercentageApprovalsRequired,
        !.numApprovalsRequired = proposal.newNumApprovalsRequired,
        !.votingByWeight = proposal.newVotingByWeight])
    ELSE done(s)

\* mutation: a removed member loses the flag but stays in the list
executeProposal_RemoveKeepsListed(s, sender, proposalId) ==
  IF ~onlyMember(s, sender) THEN Revert(s, "not member")
  ELSE IF ~proposalExists(s, proposalId)
    THEN Revert(s, "proposal does not exist")
  ELSE IF ~notProposalExecuted(s, proposalId)
    THEN Revert(s, "proposal already executed")
  ELSE LET proposal == s.proposals[proposalId + 1]
           q == ProposalQuorum(s, proposal)
           done(t) == Success([t EXCEPT !.proposals[proposalId + 1].executed = TRUE])
       IN
    IF q # OK THEN Revert(s, q)
    ELSE IF proposal.proposalType = "addMember" THEN
      IF s.isMember[proposal.newMember] THEN Revert(s, "member already exists")
      ELSE done([s EXCEPT !.isMember[proposal.newMember] = TRUE,
                          !.members = Append(@, proposal.newMember)])
    ELSE IF proposal.proposalType = "removeMember" THEN
      IF ~s.isMember[proposal.newMember] THEN Revert(s, "member does not exist")
      ELSE done([s EXCEPT !.isMember[proposal.newMember] = FALSE])
    ELSE IF proposal.proposalType = "changeParameter" THEN
      done([s EXCEPT
        !.percentageApprovalsRequired = proposal.newPercentageApprovalsRequired,
        !.numApprovalsRequired = proposal.newNumApprovalsRequired,
        !.votingByWeight = proposal.newVotingByWeight])
    ELSE done(s)

\* mutation: the bounds of the constructor are applied again when a
\* removeMember or changeParameter proposal executes
executeProposal_BoundsEnforced(s, sender, proposalId) ==
  IF ~onlyMember(s, sender) THEN Revert(s, "not member")
  ELSE IF ~proposalExists(s, proposalId)
    THEN Revert(s, "proposal does not exist")
  ELSE IF ~notProposalExecuted(s, proposalId)
    THEN Revert(s, "proposal already executed")
  ELSE LET proposal == s.proposals[proposalId + 1]
           q == ProposalQuorum(s, proposal)
           done(t) == Success([t EXCEPT !.proposals[proposalId + 1].executed = TRUE])
       IN
    IF q # OK THEN Revert(s, q)
    ELSE IF proposal.proposalType = "addMember" THEN
      IF s.isMember[proposal.newMember] THEN Revert(s, "member already exists")
      ELSE done([s EXCEPT !.isMember[proposal.newMember] = TRUE,
                          !.members = Append(@, proposal.newMember)])
    ELSE IF proposal.proposalType = "removeMember" THEN
      IF ~s.isMember[proposal.newMember] THEN Revert(s, "member does not exist")
      ELSE IF Len(s.members) - 1 = 0 THEN Revert(s, "members required")
      ELSE IF s.numApprovalsRequired > Len(s.members) - 1
        THEN Revert(s, "invalid number of required approvals")
      ELSE done([s EXCEPT !.isMember[proposal.newMember] = FALSE,
                          !.members = RemoveFromMembers(@, proposal.newMember)])
    ELSE IF proposal.proposalType = "changeParameter" THEN
      IF proposal.newNumApprovalsRequired > Len(s.members)
      THEN Revert(s, "invalid number of required approvals")
      ELSE done([s EXCEPT
        !.percentageApprovalsRequired = proposal.newPercentageApprovalsRequired,
        !.numApprovalsRequired = proposal.newNumApprovalsRequired,
        !.votingByWeight = proposal.newVotingByWeight])
    ELSE done(s)

\* mutation: removing a member also clears the member's approval marks
executeProposal_RemovalClearsMarks(s, sender, proposalId) ==
  IF ~onlyMember(s, sender) THEN Revert(s, "not member")
  ELSE IF ~proposalExists(s, proposalId)
    THEN Revert(s, "proposal does not exist")
  ELSE IF ~notProposalExecuted(s, proposalId)
    THEN Revert(s, "proposal already executed")
  ELSE LET proposal == s.proposals[proposalId + 1]
           q == ProposalQuorum(s, proposal)
           done(t) == Success([t EXCEPT !.proposals[proposalId + 1].executed = TRUE])
       IN
    IF q # OK THEN Revert(s, q)
    ELSE IF proposal.proposalType = "addMember" THEN
      IF s.isMember[proposal.newMember] THEN Revert(s, "member already exists")
      ELSE done([s EXCEPT !.isMember[proposal.newMember] = TRUE,
                          !.members = Append(@, proposal.newMember)])
    ELSE IF proposal.proposalType = "removeMember" THEN
      IF ~s.isMember[proposal.newMember] THEN Revert(s, "member does not exist")
      ELSE done([s EXCEPT
        !.isMember[proposal.newMember] = FALSE,
        !.members = RemoveFromMembers(@, proposal.newMember),
        !.isApproveed = {m \in @ : m[2] # proposal.newMember},
        !.isProposalApproveed = {m \in @ : m[2] # proposal.newMember}])
    ELSE IF proposal.proposalType = "changeParameter" THEN
      done([s EXCEPT
        !.percentageApprovalsRequired = proposal.newPercentageApprovalsRequired,
        !.numApprovalsRequired = proposal.newNumApprovalsRequired,
        !.votingByWeight = proposal.newVotingByWeight])
    ELSE done(s)

\* mutation: the type submitted from the "Voting Scheme" tab sets the mode
executeProposal_VotingMethodApplied(s, sender, proposalId) ==
  IF ~onlyMember(s, sender) THEN Revert(s, "not member")
  ELSE IF ~proposalExists(s, proposalId)
    THEN Revert(s, "proposal does not exist")
  ELSE IF ~notProposalExecuted(s, proposalId)
    THEN Revert(s, "proposal already executed")
  ELSE LET proposal == s.proposals[proposalId + 1]
           q == ProposalQuorum(s, proposal)
           done(t) == Success([t EXCEPT !.proposals[proposalId + 1].executed = TRUE])
       IN
    IF q # OK THEN Revert(s, q)
    ELSE IF proposal.proposalType = "addMember" THEN
      IF s.isMember[proposal.newMember] THEN Revert(s, "member already exists")
      ELSE done([s EXCEPT !.isMember[proposal.newMember] = TRUE,
                          !.members = Append(@, proposal.newMember)])
    ELSE IF proposal.proposalType = "removeMember" THEN
      IF ~s.isMember[proposal.newMember] THEN Revert(s, "member does not exist")
      ELSE done([s EXCEPT !.isMember[proposal.newMember] = FALSE,
                          !.members = RemoveFromMembers(@, proposal.newMember)])
    ELSE IF proposal.proposalType = "changeParameter" THEN
      done([s EXCEPT
        !.percentageApprovalsRequired = proposal.newPercentageApprovalsRequired,
        !.numApprovalsRequired = proposal.newNumApprovalsRequired,
        !.votingByWeight = proposal.newVotingByWeight])
    ELSE IF proposal.proposalType = "changeVotingMethod" THEN
      done([s EXCEPT !.votingByWeight = proposal.newVotingByWeight])
    ELSE done(s)

executeProposal(s, sender, proposalId) ==
  IF ~onlyMember(s, sender) THEN Revert(s, "not member")
  ELSE IF ~proposalExists(s, proposalId)
    THEN Revert(s, "proposal does not exist")
  ELSE IF ~notProposalExecuted(s, proposalId)
    THEN Revert(s, "proposal already executed")
  ELSE LET proposal == s.proposals[proposalId + 1]
           q == ProposalQuorum(s, proposal)
           done(t) == Success([t EXCEPT !.proposals[proposalId + 1].executed = TRUE])
       IN
    IF q # OK THEN Revert(s, q)
    ELSE IF proposal.proposalType = "addMember" THEN
      IF s.isMember[proposal.newMember] THEN Revert(s, "member already exists")
      ELSE done([s EXCEPT !.isMember[proposal.newMember] = TRUE,
                          !.members = Append(@, proposal.newMember)])
    ELSE IF proposal.proposalType = "removeMember" THEN
      IF ~s.isMember[proposal.newMember] THEN Revert(s, "member does not exist")
      ELSE done([s EXCEPT !.isMember[proposal.newMember] = FALSE,
                          !.members = RemoveFromMembers(@, proposal.newMember)])
    ELSE IF proposal.proposalType = "changeParameter" THEN
      done([s EXCEPT
        !.percentageApprovalsRequired = proposal.newPercentageApprovalsRequired,
        !.numApprovalsRequired = proposal.newNumApprovalsRequired,
        !.votingByWeight = proposal.newVotingByWeight])
    ELSE done(s)

(* ------------------------------- inputs -------------------------------- *)
\* constructor arguments the model is deployed with
CtorInputs ==
  { <<(<<"A", "B">>), 2, 50, TRUE>>, <<(<<"A", "B">>), 2, 50, FALSE>> }

DepositAmounts == {1}

\* <<to, value>> of submitted projects; data is always the empty payload
ProjectInputs == { <<"C", 1>>, <<"R", 0>>, <<"T", 1>> }

\* <<proposalType, newMember, newPercentage, newNum, newVotingByWeight>>
ProposalInputs ==
  { <<"addMember", "C", 0, 0, FALSE>>,
    <<"removeMember", "B", 0, 0, FALSE>>,
    <<"changeParameter", ZeroAddress, 600, 1, TRUE>> }

\* record ids used in calls: every id that can exist and one that never does
ProjectIds == 0..MaxProjects
ProposalIds == 0..MaxProposals

(* ---------------------------- external call ---------------------------- *)
\* the most calls a target makes back into the contract before it returns
MaxCallbacks == 1

\* a call of the target back into the contract: the function, its numeric
\* argument (the wei sent or the record id) and the record it submits
CallbackCalls ==
  {[fn |-> "receive", n |-> v, p |-> <<>>] : v \in DepositAmounts}
  \cup {[fn |-> "submitProject", n |-> 0, p |-> p] : p \in ProjectInputs}
  \cup {[fn |-> f, n |-> i, p |-> <<>>] :
          f \in {"approveProject", "revokeApproval", "executeProject"},
          i \in ProjectIds}
  \cup {[fn |-> "submitProposal", n |-> 0, p |-> p] : p \in ProposalInputs}
  \cup {[fn |-> f, n |-> i, p |-> <<>>] :
          f \in {"approveProposal", "executeProposal"}, i \in ProposalIds}

\* what the code of a target does when project.to.call hands it control: the
\* calls it makes back into the contract, in order, and whether it then
\* returns normally or reverts
TargetRuns ==
  {[calls |-> c, returns |-> b] :
     c \in UNION {[1..n -> CallbackCalls] : n \in 0..MaxCallbacks},
     b \in BOOLEAN}

\* a target that returns at once, one that reverts at once
Quiet == [calls |-> <<>>, returns |-> TRUE]
Reverting == [calls |-> <<>>, returns |-> FALSE]
PlainRuns == {Quiet, Reverting}

\* mutation: the executed flag is not yet set while the external call runs
DuringCall_FlagNotYetSet(s, txIndex) ==
  [s EXCEPT !.balance = @ - s.projects[txIndex + 1].value]

\* mutation: the external call is made without {value: project.value}
DuringCall_ValueNotSent(s, txIndex) ==
  [s EXCEPT !.projects[txIndex + 1].executed = TRUE]

\* the state the call target sees while project.to.call{value: ...} runs:
\* executed is already true and the value has left the contract
DuringCall(s, txIndex) ==
  [s EXCEPT !.projects[txIndex + 1].executed = TRUE,
            !.balance = @ - s.projects[txIndex + 1].value]

RECURSIVE executeProject(_, _, _, _)

\* one call of the target `caller` back into the contract, msg.sender being
\* the target; the target of a nested executeProject returns at once.  A call
\* that would take the funds or the logs past the bounds is not made.
NestedCall(s, caller, cb) ==
  IF cb.fn = "receive" THEN
    IF s.balance + cb.n > MaxFunds THEN Success(s)
    ELSE Receive(s, caller, cb.n)
  ELSE IF cb.fn = "submitProject" THEN
    IF Len(s.projects) >= MaxProjects + 1 THEN Success(s)
    ELSE submitProject(s, caller, cb.p[1], cb.p[2], "0x")
  ELSE IF cb.fn = "approveProject" THEN approveProject(s, caller, cb.n)
  ELSE IF cb.fn = "revokeApproval" THEN revokeApproval(s, caller, cb.n)
  ELSE IF cb.fn = "executeProject" THEN executeProject(s, caller, cb.n, Quiet)
  ELSE IF cb.fn = "submitProposal" THEN
    IF Len(s.proposals) >= MaxProposals THEN Success(s)
    ELSE submitProposal(s, caller, cb.p[1], cb.p[2], cb.p[3], cb.p[4], cb.p[5])
  ELSE IF cb.fn = "approveProposal" THEN approveProposal(s, caller, cb.n)
  ELSE executeProposal(s, caller, cb.n)

\* the state when the target returns: its calls one after the other, a call
\* that reverts leaving the state as it was while the target goes on
RECURSIVE RunCallbacks(_, _, _)
RunCallbacks(s, caller, calls) ==
  IF calls = <<>> THEN s
  ELSE RunCallbacks(NestedCall(s, caller, Head(calls)).s, caller, Tail(calls))

\* the state after project.to.call returned true: an account without code
\* only receives the value, a contract has run its code
AfterCall(s, txIndex, run) ==
  IF s.projects[txIndex + 1].to \in Contracts
  THEN RunCallbacks(DuringCall(s, txIndex), s.projects[txIndex + 1].to, run.calls)
  ELSE DuringCall(s, txIndex)

\* success of project.to.call: false when the value exceeds the balance, when
\* the target always reverts, or when the code of the target reverts
CallReturns(s, project, run) ==
  /\ CallSucceeds(s, project)
  /\ project.to \in Contracts => run.returns

\* mutation: a failed external call does not undo the executed flag
executeProject_NoRollback(s, sender, txIndex, run) ==
  IF ~onlyMember(s, sender) THEN Revert(s, "not member")
  ELSE IF ~txExists(s, txIndex) THEN Revert(s, "tx does not exist")
  ELSE IF ~notExecuted(s, txIndex) THEN Revert(s, "tx already executed")
  ELSE LET project == s.projects[txIndex + 1]
           q == ProjectQuorum(s, project) IN
    IF q # OK THEN Revert(s, q)
    ELSE LET s1 == [s EXCEPT !.projects[txIndex + 1].executed = TRUE] IN
      IF ~CallReturns(s1, project, run) THEN Revert(s1, "tx failed")
      ELSE Success(AfterCall(s, txIndex, run))

executeProject(s, sender, txIndex, run) ==
  IF ~onlyMember(s, sender) THEN Revert(s, "not member")
  ELSE IF ~txExists(s, txIndex) THEN Revert(s, "tx does not exist")
  ELSE IF ~notExecuted(s, txIndex) THEN Revert(s, "tx already executed")
  ELSE LET project == s.projects[txIndex + 1]
           q == ProjectQuorum(s, project) IN
    IF q # OK THEN Revert(s, q)
    ELSE LET s1 == [s EXCEPT !.projects[txIndex + 1].executed = TRUE] IN
      IF ~CallReturns(s1, project, run) THEN Revert(s, "tx failed")
      ELSE Success(AfterCall(s, txIndex, run))

\* the wei that the call cb sends to receive(): the amount sent with it when
\* the call is made and does not revert
Deposited(s, caller, cb) ==
  IF /\ cb.fn = "receive"
     /\ s.balance + cb.n <= MaxFunds
     /\ Receive(s, caller, cb.n).err = OK
  THEN cb.n
  ELSE 0

\* the wei that the calls of a target's run send to receive(), from the
\* state s on
RECURSIVE ReceivedBack(_, _, _)
ReceivedBack(s, caller, calls) ==
  IF calls = <<>> THEN 0
  ELSE Deposited(s, caller, Head(calls))
       + ReceivedBack(NestedCall(s, caller, Head(calls)).s, caller, Tail(calls))

\* the wei sent to receive() during the external call of executeProject
\* of txIndex
DepositsDuring(txIndex, run) ==
  IF projects[txIndex + 1].to \in Contracts
  THEN ReceivedBack(DuringCall(State, txIndex), projects[txIndex + 1].to, run.calls)
  ELSE 0

(* ------------------------------- actions ------------------------------- *)
\* install the outcome r of a call as the next state; a reverted call leaves
\* every variable as it was.  deposited is the wei that the call and the
\* calls made during it sent to receive()
CommitDeposits(r, deposited) ==
  /\ members' = r.s.members
  /\ isMember' = r.s.isMember
  /\ contributionsOf' = r.s.contributionsOf
  /\ totalContributions' = r.s.totalContributions
  /\ percentageApprovalsRequired' = r.s.percentageApprovalsRequired
  /\ numApprovalsRequired' = r.s.numApprovalsRequired
  /\ votingByWeight' = r.s.votingByWeight
  /\ isApproveed' = r.s.isApproveed
  /\ isProposalApproveed' = r.s.isProposalApproveed
  /\ projects' = r.s.projects
  /\ proposals' = r.s.proposals
  /\ balance' = r.s.balance
  /\ received' = received + deposited
  /\ forced' = forced

\* the outcome of a call that sends no wei to receive()
Commit(r) == CommitDeposits(r, 0)

Init ==
  \E c \in CtorInputs :
    LET r == Constructor(c[1], c[2], c[3], c[4]) IN
      /\ r.err = OK
      /\ members = r.s.members
      /\ isMember = r.s.isMember
      /\ contributionsOf = r.s.contributionsOf
      /\ totalContributions = r.s.totalContributions
      /\ percentageApprovalsRequired = r.s.percentageApprovalsRequired
      /\ numApprovalsRequired = r.s.numApprovalsRequired
      /\ votingByWeight = r.s.votingByWeight
      /\ isApproveed = r.s.isApproveed
      /\ isProposalApproveed = r.s.isProposalApproveed
      /\ projects = r.s.projects
      /\ proposals = r.s.proposals
      /\ balance = r.s.balance
      /\ received = 0
      /\ forced = 0

\* a plain transfer of ether to the contract
Deposit(sender, value) ==
  /\ balance + value <= MaxFunds
  /\ LET r == Receive(State, sender, value) IN
       CommitDeposits(r, IF r.err = OK THEN value ELSE 0)

SubmitProject(sender, to, value) ==
  /\ Len(projects) < MaxProjects
  /\ Commit(submitProject(State, sender, to, value, "0x"))

ApproveProject(sender, txIndex) ==
  /\ txIndex \in ProjectIds
  /\ Commit(approveProject(State, sender, txIndex))

RevokeApproval(sender, txIndex) ==
  /\ txIndex \in ProjectIds
  /\ Commit(revokeApproval(State, sender, txIndex))

\* what the target of project txIndex can do when it is called: a contract
\* runs any of its runs, an account without code runs none
RunsOfTarget(txIndex) ==
  IF txExists(State, txIndex) /\ projects[txIndex + 1].to \in Contracts
  THEN TargetRuns
  ELSE {Quiet}

\* one transaction: the checks, the external call with everything the
\* target does during it, and the outcome of the whole
ExecuteProject(sender, txIndex) ==
  /\ txIndex \in ProjectIds
  /\ \E run \in RunsOfTarget(txIndex) :
       LET r == executeProject(State, sender, txIndex, run) IN
         CommitDeposits(r, IF r.err = OK THEN DepositsDuring(txIndex, run)
                           ELSE 0)

SubmitProposal(sender, p) ==
  /\ Len(proposals) < MaxProposals
  /\ Commit(submitProposal(State, sender, p[1], p[2], p[3], p[4], p[5]))

ApproveProposal(sender, proposalId) ==
  /\ proposalId \in ProposalIds
  /\ Commit(approveProposal(State, sender, proposalId))

ExecuteProposal(sender, proposalId) ==
  /\ proposalId \in ProposalIds
  /\ Commit(executeProposal(State, sender, proposalId))

Next ==
  \/ \E a \in Addr, v \in DepositAmounts : Deposit(a, v)
  \/ \E a \in Addr, p \in ProjectInputs : SubmitProject(a, p[1], p[2])
  \/ \E a \in Addr, i \in ProjectIds : ApproveProject(a, i)
  \/ \E a \in Addr, i \in ProjectIds : RevokeApproval(a, i)
  \/ \E a \in Addr, i \in ProjectIds : ExecuteProject(a, i)
  \/ \E a \in Addr, p \in ProposalInputs : SubmitProposal(a, p)
  \/ \E a \in Addr, i \in ProposalIds : ApproveProposal(a, i)
  \/ \E a \in Addr, i \in ProposalIds : ExecuteProposal(a, i)

Spec == Init /\ [][Next]_vars

\* the project side alone: deposits and the four project functions, under the
\* membership and configuration of the deployment
NextProjects ==
  \/ \E a \in Addr, v \in DepositAmounts : Deposit(a, v)
  \/ \E a \in Addr, p \in ProjectInputs : SubmitProject(a, p[1], p[2])
  \/ \E a \in Addr, i \in ProjectIds : ApproveProject(a, i)
  \/ \E a \in Addr, i \in ProjectIds : RevokeApproval(a, i)
  \/ \E a \in Addr, i \in ProjectIds : ExecuteProject(a, i)

SpecProjects == Init /\ [][NextProjects]_vars

\* proposals of the governance side: an addMember of a member of the
\* deployment and of an outsider, a removeMember of the first listed member,
\* a percentage above 100 with a count above the number of members, and a
\* change to weight mode with percentage 0
GovProposalInputs ==
  { <<"addMember", "A", 0, 0, FALSE>>,
    <<"addMember", "C", 0, 0, FALSE>>,
    <<"removeMember", "A", 0, 0, FALSE>>,
    <<"changeParameter", ZeroAddress, 600, 3, FALSE>>,
    <<"changeParameter", ZeroAddress, 0, 1, TRUE>> }

\* submitProposal while the log may hold one proposal more, so that one
\* proposal can be executed before or after another
SubmitGovProposal(sender, p) ==
  /\ Len(proposals) < MaxProposals + 1
  /\ Commit(submitProposal(State, sender, p[1], p[2], p[3], p[4], p[5]))

\* the governance side alone: deposits and the three proposal functions
NextGovernance ==
  \/ \E a \in Addr, v \in DepositAmounts : Deposit(a, v)
  \/ \E a \in Addr, p \in GovProposalInputs : SubmitGovProposal(a, p)
  \/ \E a \in Addr, i \in ProposalIds : ApproveProposal(a, i)
  \/ \E a \in Addr, i \in ProposalIds : ExecuteProposal(a, i)

SpecGovernance == Init /\ [][NextGovernance]_vars

\* constructor arguments, valid and invalid: member lists of up to
\* MaxInitialMembers entries that may repeat an address or hold the zero
\* address, counts up to one above the longest list, percentages up to 101
MaxInitialMembers == 2
DeployLists ==
  UNION {[1..n -> {"A", "B", ZeroAddress}] : n \in 0..MaxInitialMembers}
DeployInputs ==
  {<<ms, num, pct, byWeight>> :
     ms \in DeployLists, num \in 0..(MaxInitialMembers + 1),
     pct \in {0, 100, 101}, byWeight \in BOOLEAN}

\* deployment with any of these arguments; a reverted constructor creates no
\* contract
InitDeploy ==
  \E c \in DeployInputs :
    LET r == Constructor(c[1], c[2], c[3], c[4]) IN
      /\ r.err = OK
      /\ members = r.s.members
      /\ isMember = r.s.isMember
      /\ contributionsOf = r.s.contributionsOf
      /\ totalContributions = r.s.totalContributions
      /\ percentageApprovalsRequired = r.s.percentageApprovalsRequired
      /\ numApprovalsRequired = r.s.numApprovalsRequired
      /\ votingByWeight = r.s.votingByWeight
      /\ isApproveed = r.s.isApproveed
      /\ isProposalApproveed = r.s.isProposalApproveed
      /\ projects = r.s.projects
      /\ proposals = r.s.proposals
      /\ balance = r.s.balance
      /\ received = 0
      /\ forced = 0

\* the deployments and the deposits they receive
NextDeploy == \E a \in Addr, v \in DepositAmounts : Deposit(a, v)

SpecDeploy == InitDeploy /\ [][NextDeploy]_vars

\* deployments in weight mode: the percentage of the tests, and the largest
\* percentage the constructor accepts
WeightModeInputs ==
  { <<(<<"A", "B">>), 2, 50, TRUE>>, <<(<<"A", "B">>), 2, 100, TRUE>> }

InitWeightMode ==
  \E c \in WeightModeInputs :
    LET r == Constructor(c[1], c[2], c[3], c[4]) IN
      /\ r.err = OK
      /\ members = r.s.members
      /\ isMember = r.s.isMember
      /\ contributionsOf = r.s.contributionsOf
      /\ totalContributions = r.s.totalContributions
      /\ percentageApprovalsRequired = r.s.percentageApprovalsRequired
      /\ numApprovalsRequired = r.s.numApprovalsRequired
      /\ votingByWeight = r.s.votingByWeight
      /\ isApproveed = r.s.isApproveed
      /\ isProposalApproveed = r.s.isProposalApproveed
      /\ projects = r.s.projects
      /\ proposals = r.s.proposals
      /\ balance = r.s.balance
      /\ received = 0
      /\ forced = 0

\* the whole contract, deployed in weight mode
SpecWeightMode == InitWeightMode /\ [][Next]_vars

\* the governance side under count thresholds a single member or both members
\* meet: removals of either member of the deployment, an addMember, a
\* changeParameter with a count above the number of members, and the
\* proposal type the user interface submits from its "Voting Scheme" tab
MembershipCtorInputs ==
  { <<(<<"A", "B">>), 1, 50, FALSE>>, <<(<<"A", "B">>), 2, 50, FALSE>> }

MembershipProposalInputs ==
  { <<"removeMember", "A", 0, 0, FALSE>>,
    <<"removeMember", "B", 0, 0, FALSE>>,
    <<"addMember", "C", 0, 0, FALSE>>,
    <<"changeParameter", ZeroAddress, 50, 3, FALSE>>,
    <<"changeVotingMethod", ZeroAddress, 0, 0, TRUE>> }

InitMembership ==
  \E c \in MembershipCtorInputs :
    LET r == Constructor(c[1], c[2], c[3], c[4]) IN
      /\ r.err = OK
      /\ members = r.s.members
      /\ isMember = r.s.isMember
      /\ contributionsOf = r.s.contributionsOf
      /\ totalContributions = r.s.totalContributions
      /\ percentageApprovalsRequired = r.s.percentageApprovalsRequired
      /\ numApprovalsRequired = r.s.numApprovalsRequired
      /\ votingByWeight = r.s.votingByWeight
      /\ isApproveed = r.s.isApproveed
      /\ isProposalApproveed = r.s.isProposalApproveed
      /\ projects = r.s.projects
      /\ proposals = r.s.proposals
      /\ balance = r.s.balance
      /\ received = 0
      /\ forced = 0

SubmitMembershipProposal(sender, p) ==
  /\ Len(proposals) < MaxProposals + 1
  /\ Commit(submitProposal(State, sender, p[1], p[2], p[3], p[4], p[5]))

NextMembership ==
  \/ \E a \in Addr, p \in MembershipProposalInputs : SubmitMembershipProposal(a, p)
  \/ \E a \in Addr, i \in ProposalIds : ApproveProposal(a, i)
  \/ \E a \in Addr, i \in ProposalIds : ExecuteProposal(a, i)

SpecMembership == InitMembership /\ [][NextMembership]_vars

\* deployments in count mode with the count thresholds 0 and 2, and proposals
\* that set the threshold to 0, add an outsider and add a member again
ZeroThresholdCtorInputs ==
  { <<(<<"A", "B">>), 0, 50, FALSE>>, <<(<<"A", "B">>), 2, 50, FALSE>> }

ZeroThresholdProposalInputs ==
  { <<"changeParameter", ZeroAddress, 50, 0, FALSE>>,
    <<"addMember", "C", 0, 0, FALSE>>,
    <<"addMember", "A", 0, 0, FALSE>> }

InitZeroThreshold ==
  \E c \in ZeroThresholdCtorInputs :
    LET r == Constructor(c[1], c[2], c[3], c[4]) IN
      /\ r.err = OK
      /\ members = r.s.members
      /\ isMember = r.s.isMember
      /\ contributionsOf = r.s.contributionsOf
      /\ totalContributions = r.s.totalContributions
      /\ percentageApprovalsRequired = r.s.percentageApprovalsRequired
      /\ numApprovalsRequired = r.s.numApprovalsRequired
      /\ votingByWeight = r.s.votingByWeight
      /\ isApproveed = r.s.isApproveed
      /\ isProposalApproveed = r.s.isProposalApproveed
      /\ projects = r.s.projects
      /\ proposals = r.s.proposals
      /\ balance = r.s.balance
      /\ received = 0
      /\ forced = 0

SubmitZeroThresholdProposal(sender, p) ==
  /\ Len(proposals) < MaxProposals
  /\ Commit(submitProposal(State, sender, p[1], p[2], p[3], p[4], p[5]))

NextZeroThreshold ==
  \/ \E a \in Addr, v \in DepositAmounts : Deposit(a, v)
  \/ \E a \in Addr, p \in ProjectInputs : SubmitProject(a, p[1], p[2])
  \/ \E a \in Addr, i \in ProjectIds : ApproveProject(a, i)
  \/ \E a \in Addr, i \in ProjectIds : ExecuteProject(a, i)
  \/ \E a \in Addr, p \in ZeroThresholdProposalInputs :
       SubmitZeroThresholdProposal(a, p)
  \/ \E a \in Addr, i \in ProposalIds : ApproveProposal(a, i)
  \/ \E a \in Addr, i \in ProposalIds : ExecuteProposal(a, i)

SpecZeroThreshold == InitZeroThreshold /\ [][NextZeroThreshold]_vars

\* the whole contract with room for a second proposal, so that a member can
\* be removed while a project and another proposal that the member approved
\* are pending: the removal of the second member of the deployment, and a
\* changeParameter to count mode with the deployment's thresholds
RemovalProposalInputs ==
  { <<"removeMember", "B", 0, 0, FALSE>>,
    <<"changeParameter", ZeroAddress, 50, 2, FALSE>> }

\* one payment of 1 wei to an outsider
RemovalProjectInputs == { <<"C", 1>> }

SubmitRemovalProposal(sender, p) ==
  /\ Len(proposals) < MaxProposals + 1
  /\ Commit(submitProposal(State, sender, p[1], p[2], p[3], p[4], p[5]))

NextRemoval ==
  \/ \E a \in Addr, v \in DepositAmounts : Deposit(a, v)
  \/ \E a \in Addr, p \in RemovalProjectInputs : SubmitProject(a, p[1], p[2])
  \/ \E a \in Addr, i \in ProjectIds : ApproveProject(a, i)
  \/ \E a \in Addr, i \in ProjectIds : RevokeApproval(a, i)
  \/ \E a \in Addr, i \in ProjectIds : ExecuteProject(a, i)
  \/ \E a \in Addr, p \in RemovalProposalInputs : SubmitRemovalProposal(a, p)
  \/ \E a \in Addr, i \in ProposalIds : ApproveProposal(a, i)
  \/ \E a \in Addr, i \in ProposalIds : ExecuteProposal(a, i)

SpecRemoval == Init /\ [][NextRemoval]_vars

\* inputs of the weight test: every percentage the constructor accepts, every
\* total of contributions up to MaxTotal and every weight up to the total.
\* The product of the largest total and percentage fits the word.
MaxTotal == 10
Percentages == 0..100

\* the contract deployed in weight mode with percentage pct, after A
\* deposited weight, submitted and approved a project without value and an
\* addMember proposal, and deposited the rest of total
WeightTestState(pct, weight, total) ==
  LET s0 == Constructor(<<"A", "B">>, 2, pct, TRUE).s
      s1 == Receive(s0, "A", weight).s
      s2 == submitProject(s1, "A", "C", 0, "0x").s
      s3 == approveProject(s2, "A", 0).s
      s4 == submitProposal(s3, "A", "addMember", "C", 0, 0, FALSE).s
      s5 == approveProposal(s4, "A", 0).s
  IN Receive(s5, "A", total - weight).s

InitWeightTest ==
  \E pct \in Percentages, total \in 0..MaxTotal :
    \E weight \in 0..total :
      LET s == WeightTestState(pct, weight, total) IN
        /\ members = s.members
        /\ isMember = s.isMember
        /\ contributionsOf = s.contributionsOf
        /\ totalContributions = s.totalContributions
        /\ percentageApprovalsRequired = s.percentageApprovalsRequired
        /\ numApprovalsRequired = s.numApprovalsRequired
        /\ votingByWeight = s.votingByWeight
        /\ isApproveed = s.isApproveed
        /\ isProposalApproveed = s.isProposalApproveed
        /\ projects = s.projects
        /\ proposals = s.proposals
        /\ balance = s.balance
        /\ received = total
        /\ forced = 0

\* the two functions that apply the weight test
NextWeightTest ==
  \/ \E a \in Addr, i \in ProjectIds : ExecuteProject(a, i)
  \/ \E a \in Addr, i \in ProposalIds : ExecuteProposal(a, i)

SpecWeightTest == InitWeightTest /\ [][NextWeightTest]_vars

\* deployments in count mode with every threshold the two members can meet
ProgressCtorInputs ==
  { <<(<<"A", "B">>), n, 50, FALSE>> : n \in 0..2 }

InitProgress ==
  \E c \in ProgressCtorInputs :
    LET r == Constructor(c[1], c[2], c[3], c[4]) IN
      /\ r.err = OK
      /\ members = r.s.members
      /\ isMember = r.s.isMember
      /\ contributionsOf = r.s.contributionsOf
      /\ totalContributions = r.s.totalContributions
      /\ percentageApprovalsRequired = r.s.percentageApprovalsRequired
      /\ numApprovalsRequired = r.s.numApprovalsRequired
      /\ votingByWeight = r.s.votingByWeight
      /\ isApproveed = r.s.isApproveed
      /\ isProposalApproveed = r.s.isProposalApproveed
      /\ projects = r.s.projects
      /\ proposals = r.s.proposals
      /\ balance = r.s.balance
      /\ received = 0
      /\ forced = 0

\* every account keeps calling approveProject on every id until the call has
\* its effect, and executeProject is called on every id until some call has
\* its effect; deposits, submissions and revocations happen or not.  That
\* the call is made says nothing on what the code of a target does: a
\* contract may revert every call it gets, so the calls are fair only for
\* the projects whose target runs no code
FairCalls ==
  /\ \A a \in Addr, i \in ProjectIds : WF_vars(ApproveProject(a, i))
  /\ \A i \in ProjectIds :
       WF_vars(\E a \in Addr :
                 ExecuteProject(a, i) /\ RunsOfTarget(i) = {Quiet})

\* the project side in count mode, no proposal being submitted or executed
SpecProgress == InitProgress /\ [][NextProjects]_vars /\ FairCalls

\* a deployment with a contract among the members: the contract T, which runs
\* its code when a project pays it, and the account A, whose approval alone
\* meets the count threshold
CallbackCtorInputs == { <<(<<"A", "T">>), 1, 50, FALSE>> }

InitCallbacks ==
  \E c \in CallbackCtorInputs :
    LET r == Constructor(c[1], c[2], c[3], c[4]) IN
      /\ r.err = OK
      /\ members = r.s.members
      /\ isMember = r.s.isMember
      /\ contributionsOf = r.s.contributionsOf
      /\ totalContributions = r.s.totalContributions
      /\ percentageApprovalsRequired = r.s.percentageApprovalsRequired
      /\ numApprovalsRequired = r.s.numApprovalsRequired
      /\ votingByWeight = r.s.votingByWeight
      /\ isApproveed = r.s.isApproveed
      /\ isProposalApproveed = r.s.isProposalApproveed
      /\ projects = r.s.projects
      /\ proposals = r.s.proposals
      /\ balance = r.s.balance
      /\ received = 0
      /\ forced = 0

\* projects that pay the member contract and an outside account
CallbackProjectInputs == { <<"T", 1>>, <<"C", 1>> }

\* proposals to remove the member contract and to add an outsider
CallbackProposalInputs ==
  { <<"removeMember", "T", 0, 0, FALSE>>,
    <<"addMember", "C", 0, 0, FALSE>> }

\* the accounts that send transactions: the member and an outsider
CallbackSenders == {"A", "B"}

\* submitProject while the log may hold one project more, so that one project
\* can be pending while another is executed
SubmitCallbackProject(sender, to, value) ==
  /\ Len(projects) < MaxProjects + 1
  /\ Commit(submitProject(State, sender, to, value, "0x"))

NextCallbacks ==
  \/ \E a \in CallbackSenders, v \in DepositAmounts : Deposit(a, v)
  \/ \E a \in CallbackSenders, p \in CallbackProjectInputs :
       SubmitCallbackProject(a, p[1], p[2])
  \/ \E a \in CallbackSenders, i \in ProjectIds : ApproveProject(a, i)
  \/ \E a \in CallbackSenders, i \in ProjectIds : RevokeApproval(a, i)
  \/ \E a \in CallbackSenders, i \in ProjectIds : ExecuteProject(a, i)
  \/ \E a \in CallbackSenders, p \in CallbackProposalInputs : SubmitProposal(a, p)
  \/ \E a \in CallbackSenders, i \in ProposalIds : ApproveProposal(a, i)
  \/ \E a \in CallbackSenders, i \in ProposalIds : ExecuteProposal(a, i)

\* every function of the contract, with a member that calls back during the
\* external call of executeProject
SpecCallbacks == InitCallbacks /\ [][NextCallbacks]_vars

\* wei credited to the address of the contract while none of its code runs:
\* the address is named as the beneficiary of a selfdestruct or as the
\* recipient of a block reward.  No function is called, so the storage stays
\* and no Deposit event is emitted; address(this).balance holds the wei
ForcedTransfer(value) ==
  /\ balance + value <= MaxFunds
  /\ balance' = balance + value
  /\ forced' = forced + value
  /\ UNCHANGED <<members, isMember, contributionsOf, totalContributions,
                 percentageApprovalsRequired, numApprovalsRequired,
                 votingByWeight, isApproveed, isProposalApproveed,
                 projects, proposals, received>>

NextTreasury ==
  \/ \E a \in CallbackSenders, v \in DepositAmounts : Deposit(a, v)
  \/ \E v \in DepositAmounts : ForcedTransfer(v)
  \/ \E a \in CallbackSenders, p \in CallbackProjectInputs :
       SubmitCallbackProject(a, p[1], p[2])
  \/ \E a \in CallbackSenders, i \in ProjectIds : ApproveProject(a, i)
  \/ \E a \in CallbackSenders, i \in ProjectIds : RevokeApproval(a, i)
  \/ \E a \in CallbackSenders, i \in ProjectIds : ExecuteProject(a, i)
  \/ \E a \in CallbackSenders, p \in CallbackProposalInputs : SubmitProposal(a, p)
  \/ \E a \in CallbackSenders, i \in ProposalIds : ApproveProposal(a, i)
  \/ \E a \in CallbackSenders, i \in ProposalIds : ExecuteProposal(a, i)

\* every function of the contract, with a member that calls back during the
\* external call of executeProject, and every way the balance changes: the
\* deposits, the payments of executed projects and the wei that reaches the
\* address without a call
SpecTreasury == InitCallbacks /\ [][NextTreasury]_vars

(* ------------------------------ properties ----------------------------- *)
\* every stored unsigned integer stays within the machine word
TypeOK ==
  /\ totalContributions \in 0..MaxUint
  /\ \A a \in AnyAddr : contributionsOf[a] \in 0..MaxUint
  /\ balance \in 0..MaxUint
  /\ \A i \in 1..Len(projects) :
       projects[i].numApprovals \in 0..MaxUint /\ projects[i].weight \in 0..MaxUint
  /\ \A i \in 1..Len(proposals) :
       proposals[i].numApprovals \in 0..MaxUint /\ proposals[i].weight \in 0..MaxUint

\* the quorum configuration
Config == <<percentageApprovalsRequired, numApprovalsRequired, votingByWeight>>

\* current members among the calling accounts
Members == {a \in Addr : isMember[a]}

\* the quorum rule as the documentation states it, on the current configuration
QuorumRule(rec) ==
  \/ ~votingByWeight /\ rec.numApprovals >= numApprovalsRequired
  \/ votingByWeight /\
       rec.weight > (totalContributions * percentageApprovalsRequired) \div 100

\* projects / proposals that exist and are not executed
PendingProjects ==
  {i \in ProjectIds : txExists(State, i) /\ ~projects[i + 1].executed}
PendingProposals ==
  {i \in ProposalIds : proposalExists(State, i) /\ ~proposals[i + 1].executed}

(* C1 ------------------------------------------------------------------- *)
\* an execute call on an executed record fails and changes nothing, whatever
\* the code of the target
ExecuteOnExecutedFails ==
  /\ \A a \in Addr, i \in ProjectIds, run \in TargetRuns :
       (txExists(State, i) /\ projects[i + 1].executed) =>
         executeProject(State, a, i, run) =
           Revert(State, IF isMember[a] THEN "tx already executed" ELSE "not member")
  /\ \A a \in Addr, i \in ProposalIds :
       (proposalExists(State, i) /\ proposals[i + 1].executed) =>
         executeProposal(State, a, i) =
           Revert(State, IF isMember[a] THEN "proposal already executed"
                                        ELSE "not member")

\* the values of the projects whose flag is false in log `before` and true in
\* log `after`, summed
RECURSIVE NewlyPaid(_, _, _)
NewlyPaid(before, after, n) ==
  IF n = 0 THEN 0
  ELSE NewlyPaid(before, after, n - 1)
       + (IF ~before[n].executed /\ after[n].executed THEN before[n].value ELSE 0)

\* in one step: executed flags only go from false to true, a payment leaves the
\* contract only in a step that sets the flag of a project and is at most the
\* values of the projects whose flag the step sets, and membership or
\* configuration change only in a step that sets the flag of a proposal
ExecutedStep ==
  /\ \A i \in 1..Len(projects) :
       projects[i].executed => (i <= Len(projects') /\ projects'[i].executed)
  /\ \A i \in 1..Len(proposals) :
       proposals[i].executed => (i <= Len(proposals') /\ proposals'[i].executed)
  /\ balance' < balance =>
       /\ \E i \in 1..Len(projects) : ~projects[i].executed /\ projects'[i].executed
       /\ balance - balance' <= NewlyPaid(projects, projects', Len(projects))
  /\ (members' # members \/ isMember' # isMember \/ Config' # Config) =>
       \E i \in 1..Len(proposals') :
         /\ i <= Len(proposals) => ~proposals[i].executed
         /\ proposals'[i].executed

\* C1: every project and proposal is executed at most once: its executed flag
\* never returns to false, executing an executed record fails with the
\* already-executed error leaving the whole state unchanged, and the effect of
\* a record is applied only in the one step that sets its flag
C1_ExactlyOnce == [](ExecuteOnExecutedFails) /\ [][ExecutedStep]_vars

\* a project and a proposal have both been executed, and members remain to call
C1_Witness ==
  /\ \E i \in 1..Len(projects) : projects[i].executed
  /\ \E i \in 1..Len(proposals) : proposals[i].executed
  /\ \E a \in Addr : isMember[a]

(* C2 ------------------------------------------------------------------- *)
\* C2: for a member's execute call on a pending record, the quorum check
\* passes (the call gets past it: it succeeds or fails only in the effect)
\* exactly when the count rule (>=) or the weight rule (strictly greater than
\* the truncated percentage of totalContributions) holds
C2_QuorumDecision ==
  /\ \A a \in Members, i \in PendingProjects, run \in TargetRuns :
       (executeProject(State, a, i, run).err \in {OK, "tx failed"})
         <=> QuorumRule(projects[i + 1])
  /\ \A a \in Members, i \in PendingProposals :
       (executeProposal(State, a, i).err \in
          {OK, "member already exists", "member does not exist"})
         <=> QuorumRule(proposals[i + 1])

\* weight mode, a pending project whose weight equals the truncated threshold
C2_Witness ==
  /\ votingByWeight
  /\ Members # {}
  /\ \E i \in PendingProjects :
       /\ projects[i + 1].weight > 0
       /\ projects[i + 1].weight =
            (totalContributions * percentageApprovalsRequired) \div 100

(* C3 ------------------------------------------------------------------- *)
\* the error of a failed quorum test of executeProject / executeProposal under
\* the current configuration: the product of the weight test is computed first
\* and panics when it leaves the word
QuorumError(kind) ==
  IF votingByWeight
  THEN IF totalContributions * percentageApprovalsRequired > MaxUint
       THEN Panic
       ELSE IF kind = "tx" THEN "cannot execute tx - voting by weight"
                           ELSE "cannot execute proposal - voting by weight"
  ELSE IF kind = "tx" THEN "cannot execute tx - voting by count"
                      ELSE "cannot execute proposal - voting by count"

\* the quorum-not-met error proper
QuorumNotMet(kind) ==
  IF votingByWeight
  THEN IF kind = "tx" THEN "cannot execute tx - voting by weight"
                      ELSE "cannot execute proposal - voting by weight"
  ELSE IF kind = "tx" THEN "cannot execute tx - voting by count"
                      ELSE "cannot execute proposal - voting by count"

\* the effect of a proposal can be applied in the current state
ProposalEffectApplies(proposal) ==
  /\ proposal.proposalType = "addMember" => ~isMember[proposal.newMember]
  /\ proposal.proposalType = "removeMember" => isMember[proposal.newMember]

\* C3 as stated: a member's execute call on a pending record below quorum
\* fails with the quorum-not-met error and changes nothing, and on a pending
\* record at quorum it succeeds and sets executed
C3_AsStated ==
  /\ \A a \in Members, i \in PendingProjects, run \in TargetRuns :
       LET r == executeProject(State, a, i, run) IN
         IF QuorumRule(projects[i + 1])
         THEN r.err = OK /\ r.s.projects[i + 1].executed
         ELSE r = Revert(State, QuorumNotMet("tx"))
  /\ \A a \in Members, i \in PendingProposals :
       LET r == executeProposal(State, a, i) IN
         IF QuorumRule(proposals[i + 1])
         THEN r.err = OK /\ r.s.proposals[i + 1].executed
         ELSE r = Revert(State, QuorumNotMet("proposal"))

\* C3 (amended): a member's execute call on a pending record below quorum
\* fails, changing nothing, with the quorum-not-met error, or with the
\* arithmetic panic when the product of the weight test leaves the word; on a
\* pending record at quorum it succeeds and sets executed whenever the
\* record's effect can be applied (the external call succeeds; the member to
\* add is absent, the member to remove present), and otherwise fails with the
\* effect's error, changing nothing
C3_QuorumNotMet ==
  /\ \A a \in Members, i \in PendingProjects, run \in TargetRuns :
       LET r == executeProject(State, a, i, run) IN
         IF QuorumRule(projects[i + 1])
         THEN IF CallReturns(State, projects[i + 1], run)
              THEN r.err = OK /\ r.s.projects[i + 1].executed
              ELSE r = Revert(State, "tx failed")
         ELSE r = Revert(State, QuorumError("tx"))
  /\ \A a \in Members, i \in PendingProposals :
       LET r == executeProposal(State, a, i) IN
         IF QuorumRule(proposals[i + 1])
         THEN IF ProposalEffectApplies(proposals[i + 1])
              THEN r.err = OK /\ r.s.proposals[i + 1].executed
              ELSE r.s = State /\ r.err \in {"member already exists",
                                              "member does not exist"}
         ELSE r = Revert(State, QuorumError("proposal"))

\* count mode: a pending project and a pending proposal each hold an approval
\* and are below quorum
C3_Witness ==
  /\ ~votingByWeight
  /\ Members # {}
  /\ \E i \in PendingProjects :
       projects[i + 1].numApprovals > 0 /\ ~QuorumRule(projects[i + 1])
  /\ \E i \in PendingProposals :
       proposals[i + 1].numApprovals > 0 /\ ~QuorumRule(proposals[i + 1])

(* C4 ------------------------------------------------------------------- *)
RECURSIVE SumOver(_, _)
SumOver(f, S) ==
  IF S = {} THEN 0
  ELSE LET x == CHOOSE y \in S : TRUE IN f[x] + SumOver(f, S \ {x})

\* C4: totalContributions is the sum of contributionsOf over all addresses
C4_TotalIsSum == totalContributions = SumOver(contributionsOf, AnyAddr)

\* a member who contributed has been removed by an executed proposal
C4_Witness ==
  \E i \in 1..Len(proposals) :
    /\ proposals[i].executed
    /\ proposals[i].proposalType = "removeMember"
    /\ ~isMember[proposals[i].newMember]
    /\ contributionsOf[proposals[i].newMember] > 0
    /\ totalContributions > contributionsOf[proposals[i].newMember]

(* C5 ------------------------------------------------------------------- *)
\* C5: whenever approveProject by a member succeeds, revokeApproval by the
\* same member right after it succeeds and gives back the state before the
\* approval (numApprovals, weight, the approval mark), from which the member
\* can approve again
C5_ApproveRevokeInverse ==
  \A a \in Addr, i \in ProjectIds :
    LET r1 == approveProject(State, a, i)
        r2 == revokeApproval(r1.s, a, i)
    IN r1.err = OK =>
         /\ r2.err = OK
         /\ r2.s.projects[i + 1].numApprovals = projects[i + 1].numApprovals
         /\ r2.s.projects[i + 1].weight = projects[i + 1].weight
         /\ <<i, a>> \notin r2.s.isApproveed
         /\ r2.s = State
         /\ approveProject(r2.s, a, i).err = OK

\* a member with a contribution can approve a project that already carries
\* another member's weight
C5_Witness ==
  \E a \in Addr, i \in ProjectIds :
    /\ approveProject(State, a, i).err = OK
    /\ contributionsOf[a] > 0
    /\ projects[i + 1].weight > 0

(* C6 ------------------------------------------------------------------- *)
\* C6: when a member approves a project, then deposits, then revokes, the
\* revoke succeeds and takes off the weight exactly what the approval added,
\* so that the weight is again the one the other approvers gave
C6_RevokeSubtractsApprovedAmount ==
  \A a \in Members, i \in PendingProjects, v \in DepositAmounts :
    LET r1 == approveProject(State, a, i)
        r2 == Receive(r1.s, a, v)
        r3 == revokeApproval(r2.s, a, i)
    IN (r1.err = OK /\ r2.err = OK) =>
         /\ r3.err = OK
         /\ r3.s.projects[i + 1].weight = projects[i + 1].weight

(* C7 ------------------------------------------------------------------- *)
\* C7: a member whose approval is recorded on a pending project can always
\* revoke it, and a member's revoke of an existing project fails only with
\* the already-executed or the not-approved error
C7_RevokeAlwaysAvailable ==
  /\ \A a \in Members, i \in PendingProjects :
       <<i, a>> \in isApproveed => revokeApproval(State, a, i).err = OK
  /\ \A a \in Members, i \in ProjectIds :
       txExists(State, i) =>
         revokeApproval(State, a, i).err \in
           {OK, "tx already executed", "tx not approved"}

(* C8 ------------------------------------------------------------------- *)
\* the outcomes of every member-only call of sender a in the current state
MemberOnlyCalls(a) ==
  {submitProject(State, a, p[1], p[2], "0x") : p \in ProjectInputs}
  \cup {approveProject(State, a, i) : i \in ProjectIds}
  \cup {revokeApproval(State, a, i) : i \in ProjectIds}
  \cup {executeProject(State, a, i, run) : i \in ProjectIds, run \in TargetRuns}
  \cup {submitProposal(State, a, p[1], p[2], p[3], p[4], p[5]) :
          p \in ProposalInputs}
  \cup {approveProposal(State, a, i) : i \in ProposalIds}
  \cup {executeProposal(State, a, i) : i \in ProposalIds}

\* C8: each of the seven member-only functions, called by an address that is
\* not a member at the time of the call (an account, or a contract calling
\* back during executeProject), fails with "not member" and changes nothing;
\* called by a current member it never fails with "not member", and a
\* member's submissions succeed
C8_Authorization ==
  \A a \in Addr \cup Contracts :
    IF isMember[a]
    THEN /\ \A r \in MemberOnlyCalls(a) : r.err # "not member"
         /\ \A p \in ProjectInputs :
              submitProject(State, a, p[1], p[2], "0x").err = OK
         /\ \A p \in ProposalInputs :
              submitProposal(State, a, p[1], p[2], p[3], p[4], p[5]).err = OK
    ELSE \A r \in MemberOnlyCalls(a) : r = Revert(State, "not member")

\* a member was removed by an executed proposal while the member's approval
\* is still recorded on a pending project
C8_Witness ==
  \E i \in 1..Len(proposals), j \in PendingProjects :
    /\ proposals[i].executed
    /\ proposals[i].proposalType = "removeMember"
    /\ ~isMember[proposals[i].newMember]
    /\ <<j, proposals[i].newMember>> \in isApproveed

(* C9 ------------------------------------------------------------------- *)
\* C9: a member's approveProject / approveProposal fails, changing nothing,
\* on an id that does not exist, on an executed record and on a record the
\* member has approved; otherwise it succeeds and changes exactly this: the
\* member's mark is set, numApprovals grows by 1 and weight by the member's
\* current contributionsOf
C9_ApproveGuards ==
  /\ \A a \in Members, i \in ProjectIds :
       approveProject(State, a, i) =
         IF ~(i < Len(projects)) THEN Revert(State, "tx does not exist")
         ELSE IF projects[i + 1].executed
           THEN Revert(State, "tx already executed")
         ELSE IF <<i, a>> \in isApproveed
           THEN Revert(State, "tx already approved")
         ELSE Success([State EXCEPT
                !.projects[i + 1].numApprovals = projects[i + 1].numApprovals + 1,
                !.projects[i + 1].weight =
                   projects[i + 1].weight + contributionsOf[a],
                !.isApproveed = isApproveed \cup {<<i, a>>}])
  /\ \A a \in Members, i \in ProposalIds :
       approveProposal(State, a, i) =
         IF ~(i < Len(proposals)) THEN Revert(State, "proposal does not exist")
         ELSE IF proposals[i + 1].executed
           THEN Revert(State, "proposal already executed")
         ELSE IF <<i, a>> \in isProposalApproveed
           THEN Revert(State, "proposal already approved")
         ELSE Success([State EXCEPT
                !.proposals[i + 1].numApprovals = proposals[i + 1].numApprovals + 1,
                !.proposals[i + 1].weight =
                   proposals[i + 1].weight + contributionsOf[a],
                !.isProposalApproveed = isProposalApproveed \cup {<<i, a>>}])

\* a pending project carries the approval and the weight of one member while
\* another member with a contribution has not approved it yet, and an
\* executed proposal exists
C9_Witness ==
  /\ \E i \in PendingProjects, a, b \in Members :
       /\ <<i, a>> \in isApproveed /\ <<i, b>> \notin isApproveed
       /\ projects[i + 1].weight > 0 /\ contributionsOf[b] > 0
  /\ \E i \in 1..Len(proposals) : proposals[i].executed

(* C10 ------------------------------------------------------------------ *)
\* C10: when a member's executeProject on a pending project passes the
\* quorum test and the external call fails (the value exceeds the balance,
\* or the target reverts, whatever it did before), the call fails with
\* "tx failed" and the state is the one before the call (executed still
\* false, balance unchanged); after a deposit the same call is judged afresh:
\* it succeeds, setting executed and paying the value, when quorum still
\* passes and the call now succeeds, and fails changing nothing otherwise
C10_FailedCallRollsBack ==
  \A a \in Members, i \in PendingProjects, run \in TargetRuns :
    (ProjectQuorum(State, projects[i + 1]) = OK
       /\ ~CallReturns(State, projects[i + 1], run)) =>
      /\ executeProject(State, a, i, run) = Revert(State, "tx failed")
      /\ \A d \in Addr, v \in DepositAmounts, again \in TargetRuns :
           LET s2 == Receive(State, d, v).s
               r == executeProject(s2, a, i, again)
           IN IF ProjectQuorum(s2, projects[i + 1]) = OK
                   /\ CallReturns(s2, projects[i + 1], again)
              THEN /\ r.err = OK
                   /\ r.s.projects[i + 1].executed
                   /\ projects[i + 1].to \notin Contracts =>
                        r.s.balance = s2.balance - projects[i + 1].value
              ELSE r.err # OK /\ r.s = s2

\* a pending project at quorum asks for more than the contract holds
C10_Witness ==
  /\ Members # {}
  /\ \E i \in PendingProjects :
       /\ ProjectQuorum(State, projects[i + 1]) = OK
       /\ projects[i + 1].value > balance
       /\ projects[i + 1].to \notin Rejecting

(* C11 ------------------------------------------------------------------ *)
\* C11: a deposit of v succeeds whoever sends it; from a current member it
\* adds v to the member's contributionsOf, to totalContributions and to the
\* balance; from any other address it adds v to the balance only; nothing
\* else changes (projects, proposals, approvals, membership, configuration)
C11_Deposits ==
  \A a \in Addr, v \in 1..MaxFunds :
    Receive(State, a, v) =
      Success(IF isMember[a]
              THEN [State EXCEPT !.balance = balance + v,
                                 !.contributionsOf[a] = contributionsOf[a] + v,
                                 !.totalContributions = totalContributions + v]
              ELSE [State EXCEPT !.balance = balance + v])

\* a member and a non-member have both deposited, records exist, and a former
\* member who contributed is now outside
C11_Witness ==
  /\ totalContributions > 0
  /\ balance > totalContributions
  /\ Len(projects) > 0 /\ Len(proposals) > 0
  /\ \E a \in Addr : ~isMember[a] /\ contributionsOf[a] > 0
  /\ Members # {}

(* C12 ------------------------------------------------------------------ *)
\* a successful execute call leaves every contribution and the total as they
\* were, the removed member's own contribution included
ExecuteKeepsContributions ==
  /\ \A a \in Members, i \in PendingProjects, run \in TargetRuns :
       LET r == executeProject(State, a, i, run) IN
         r.err = OK =>
           /\ r.s.contributionsOf = contributionsOf
           /\ r.s.totalContributions = totalContributions
  /\ \A a \in Members, i \in PendingProposals :
       LET r == executeProposal(State, a, i) IN
         r.err = OK =>
           /\ r.s.contributionsOf = contributionsOf
           /\ r.s.totalContributions = totalContributions

\* C12 as stated: every successful executeProject and executeProposal leaves
\* contributionsOf and totalContributions unchanged
C12_AsStated == ExecuteKeepsContributions

\* the target's code sends ether to the contract during the external call
DepositsBack(run) == \E k \in 1..Len(run.calls) : run.calls[k].fn = "receive"

\* a successful executeProposal leaves every contribution and the total as
\* they were; so does a successful executeProject, unless its target is a
\* contract that deposits during the external call, and then only the
\* target's contribution and the total grow, by the same amount
ExecuteKeepsContributionsButDeposits ==
  /\ \A a \in Members, i \in PendingProjects, run \in TargetRuns :
       LET r == executeProject(State, a, i, run)
           to == projects[i + 1].to
       IN r.err = OK =>
            IF to \in Contracts /\ DepositsBack(run)
            THEN /\ \A x \in AnyAddr \ {to} :
                      r.s.contributionsOf[x] = contributionsOf[x]
                 /\ r.s.contributionsOf[to] >= contributionsOf[to]
                 /\ r.s.totalContributions - totalContributions
                      = r.s.contributionsOf[to] - contributionsOf[to]
            ELSE /\ r.s.contributionsOf = contributionsOf
                 /\ r.s.totalContributions = totalContributions
  /\ \A a \in Members, i \in PendingProposals :
       LET r == executeProposal(State, a, i) IN
         r.err = OK =>
           /\ r.s.contributionsOf = contributionsOf
           /\ r.s.totalContributions = totalContributions

\* in one step no contribution and not the total decreases, and they change
\* only when the step is a deposit of a current member, sent as a transaction
\* or sent by the target of executeProject during the external call
ContributionStep ==
  /\ \A a \in AnyAddr : contributionsOf'[a] >= contributionsOf[a]
  /\ totalContributions' >= totalContributions
  /\ (contributionsOf' # contributionsOf
        \/ totalContributions' # totalContributions) =>
       \/ \E a \in Members, v \in DepositAmounts :
            /\ State' = Receive(State, a, v).s
            /\ contributionsOf'[a] = contributionsOf[a] + v
            /\ totalContributions' = totalContributions + v
       \/ \E a \in Members, i \in PendingProjects, run \in TargetRuns :
            /\ projects[i + 1].to \in Contracts
            /\ isMember[projects[i + 1].to]
            /\ DepositsBack(run)
            /\ executeProject(State, a, i, run) = Success(State')

\* C12 (amended): contributionsOf of every address and totalContributions
\* never decrease and change only in a deposit made by a current member; a
\* successful executeProposal (a removeMember included) leaves them
\* unchanged, and so does a successful executeProject unless its target is a
\* member contract that deposits during the external call
C12_Cumulative ==
  [](ExecuteKeepsContributionsButDeposits) /\ [][ContributionStep]_vars

\* a payment has been executed and a member who contributed has been removed,
\* the contribution still being recorded
C12_Witness ==
  /\ \E i \in 1..Len(projects) : projects[i].executed /\ projects[i].value > 0
  /\ \E i \in 1..Len(proposals) :
       /\ proposals[i].executed
       /\ proposals[i].proposalType = "removeMember"
       /\ ~isMember[proposals[i].newMember]
       /\ contributionsOf[proposals[i].newMember] > 0

(* C13 ------------------------------------------------------------------ *)
\* how often an address occurs in a member list
Occurrences(ms, who) == Cardinality({k \in 1..Len(ms) : ms[k] = who})

\* C13: when a member's executeProposal succeeds on a pending addMember
\* proposal, the target was not a member before and afterwards it is one,
\* the member list is the previous list with the target appended (so it holds
\* the target exactly once), every previous member is still a member, the
\* proposal is executed, and nothing else changed
C13_AddMemberEffect ==
  \A a \in Members, i \in PendingProposals :
    LET proposal == proposals[i + 1]
        E == proposal.newMember
        r == executeProposal(State, a, i)
    IN (proposal.proposalType = "addMember" /\ r.err = OK) =>
         /\ ~isMember[E]
         /\ r.s.isMember[E]
         /\ Occurrences(r.s.members, E) = 1
         /\ r.s.members = Append(members, E)
         /\ \A b \in AnyAddr : isMember[b] => r.s.isMember[b]
         /\ r.s.proposals[i + 1].executed
         /\ r.s = [State EXCEPT !.isMember[E] = TRUE,
                                !.members = Append(members, E),
                                !.proposals[i + 1].executed = TRUE]

\* an addMember proposal has been executed: its target is a member listed
\* once next to the members of the deployment
C13_Witness ==
  \E i \in 1..Len(proposals) :
    /\ proposals[i].executed
    /\ proposals[i].proposalType = "addMember"
    /\ isMember[proposals[i].newMember]
    /\ Occurrences(members, proposals[i].newMember) = 1
    /\ Len(members) = 3

(* C14 ------------------------------------------------------------------ *)
\* C14: a member's executeProposal on a pending addMember proposal whose
\* target is a member fails and changes nothing (the proposal stays pending,
\* member list, isMember, configuration and approvals are as before), with
\* "member already exists" when quorum is met; once the target is no longer
\* a member, the same call on the proposal at quorum succeeds and adds it
C14_DuplicateAddMember ==
  \A a \in Members, i \in PendingProposals :
    LET proposal == proposals[i + 1]
        r == executeProposal(State, a, i)
    IN proposal.proposalType = "addMember" =>
         IF isMember[proposal.newMember]
         THEN /\ r.err # OK
              /\ r.s = State
              /\ QuorumRule(proposal) => r.err = "member already exists"
         ELSE QuorumRule(proposal) =>
                /\ r.err = OK
                /\ r.s.proposals[i + 1].executed
                /\ r.s.isMember[proposal.newMember]

\* an addMember proposal that its own target approved as a member is pending
\* at quorum, and a removeMember proposal submitted after it has removed the
\* target
C14_Witness ==
  /\ Members # {}
  /\ \E i \in PendingProposals, j \in 1..Len(proposals) :
       /\ proposals[i + 1].proposalType = "addMember"
       /\ <<i, proposals[i + 1].newMember>> \in isProposalApproveed
       /\ QuorumRule(proposals[i + 1])
       /\ ~isMember[proposals[i + 1].newMember]
       /\ i + 1 < j
       /\ proposals[j].executed
       /\ proposals[j].proposalType = "removeMember"
       /\ proposals[j].newMember = proposals[i + 1].newMember

(* C15 ------------------------------------------------------------------ *)
\* the addresses of a member list
ListedIn(ms) == {ms[k] : k \in 1..Len(ms)}

\* C15: a member's executeProposal on a pending removeMember proposal whose
\* target is not a member fails and changes nothing, with "member does not
\* exist" when quorum is met; for a target that is a member and quorum met it
\* succeeds: the target is no longer a member and no longer listed, the list
\* holds exactly the other previous members (in any order), one entry fewer,
\* the proposal is executed and nothing else changed
C15_RemoveMemberEffect ==
  \A a \in Members, i \in PendingProposals :
    LET proposal == proposals[i + 1]
        M == proposal.newMember
        r == executeProposal(State, a, i)
    IN proposal.proposalType = "removeMember" =>
         IF ~isMember[M]
         THEN /\ r.err # OK
              /\ r.s = State
              /\ QuorumRule(proposal) => r.err = "member does not exist"
         ELSE QuorumRule(proposal) =>
                /\ r.err = OK
                /\ ~r.s.isMember[M]
                /\ Occurrences(r.s.members, M) = 0
                /\ ListedIn(r.s.members) = ListedIn(members) \ {M}
                /\ Len(r.s.members) = Len(members) - 1
                /\ r.s = [State EXCEPT !.isMember[M] = FALSE,
                                       !.members = r.s.members,
                                       !.proposals[i + 1].executed = TRUE]

\* a removeMember proposal has been executed and its target is gone from the
\* list, while a second removeMember proposal for the same target is pending
\* at quorum
C15_Witness ==
  /\ Members # {}
  /\ \E i \in PendingProposals, j \in 1..Len(proposals) :
       /\ proposals[i + 1].proposalType = "removeMember"
       /\ QuorumRule(proposals[i + 1])
       /\ ~isMember[proposals[i + 1].newMember]
       /\ proposals[j].executed
       /\ proposals[j].proposalType = "removeMember"
       /\ proposals[j].newMember = proposals[i + 1].newMember
       /\ proposals[j].newMember \notin ListedIn(members)

(* C16 ------------------------------------------------------------------ *)
\* C16: a member's executeProposal on a pending changeParameter proposal at
\* quorum succeeds whatever the stored values are, and changes exactly this:
\* percentageApprovalsRequired, numApprovalsRequired and votingByWeight are
\* the three values of the proposal and the proposal is executed; members
\* and isMember are as before
C16_ChangeParametersEffect ==
  \A a \in Members, i \in PendingProposals :
    LET proposal == proposals[i + 1]
        r == executeProposal(State, a, i)
    IN (proposal.proposalType = "changeParameter" /\ QuorumRule(proposal)) =>
         /\ r.err = OK
         /\ r.s.members = members /\ r.s.isMember = isMember
         /\ r.s = [State EXCEPT
              !.percentageApprovalsRequired =
                 proposal.newPercentageApprovalsRequired,
              !.numApprovalsRequired = proposal.newNumApprovalsRequired,
              !.votingByWeight = proposal.newVotingByWeight,
              !.proposals[i + 1].executed = TRUE]

\* an executed changeParameter proposal has set a percentage above 100 and a
\* count above the number of members
C16_Witness ==
  \E i \in 1..Len(proposals) :
    /\ proposals[i].executed
    /\ proposals[i].proposalType = "changeParameter"
    /\ proposals[i].newPercentageApprovalsRequired > 100
    /\ proposals[i].newNumApprovalsRequired > Len(members)
    /\ percentageApprovalsRequired = proposals[i].newPercentageApprovalsRequired
    /\ numApprovalsRequired = proposals[i].newNumApprovalsRequired
    /\ votingByWeight = proposals[i].newVotingByWeight

(* C17 ------------------------------------------------------------------ *)
\* the quorum rule under a given configuration and total
QuorumRuleUnder(pct, num, byWeight, total, rec) ==
  \/ ~byWeight /\ rec.numApprovals >= num
  \/ byWeight /\ rec.weight > (total * pct) \div 100

\* an execute call got past the quorum test
PassedQuorum(r) ==
  r.err \in {OK, "tx failed", "member already exists", "member does not exist"}

\* C17: when a pending changeParameter proposal is executed, every record
\* submitted and approved before it (another pending proposal, or a project
\* submitted and approved by the caller just before) is afterwards accepted
\* or rejected by the quorum test of execute according to the proposal's
\* percentage, count and mode and the current totalContributions, whatever
\* the configuration was when the record was submitted and approved
C17_ConfigAtExecution ==
  \A a \in Members, p \in PendingProposals :
    LET change == proposals[p + 1]
        NewRule(total, rec) ==
          QuorumRuleUnder(change.newPercentageApprovalsRequired,
                          change.newNumApprovalsRequired,
                          change.newVotingByWeight, total, rec)
        r1 == executeProposal(State, a, p)
    IN (change.proposalType = "changeParameter" /\ r1.err = OK) =>
         /\ \A j \in PendingProposals \ {p} :
              PassedQuorum(executeProposal(r1.s, a, j))
                <=> NewRule(totalContributions, proposals[j + 1])
         /\ \A inp \in ProjectInputs :
              LET t == Len(projects)
                  s1 == submitProject(State, a, inp[1], inp[2], "0x").s
                  s2 == approveProject(s1, a, t).s
                  s3 == executeProposal(s2, a, p).s
              IN \A run \in PlainRuns :
                   PassedQuorum(executeProject(s3, a, t, run))
                   <=> NewRule(totalContributions, s2.projects[t + 1])

\* a changeParameter proposal has been executed and is in force, and a
\* proposal submitted before it is pending with a verdict that differs from
\* the verdict under either configuration of the deployment
C17_Witness ==
  /\ Members # {}
  /\ \E i \in 1..Len(proposals), j \in PendingProposals :
       /\ proposals[i].executed
       /\ proposals[i].proposalType = "changeParameter"
       /\ percentageApprovalsRequired = proposals[i].newPercentageApprovalsRequired
       /\ numApprovalsRequired = proposals[i].newNumApprovalsRequired
       /\ votingByWeight = proposals[i].newVotingByWeight
       /\ j + 1 < i
       /\ proposals[j + 1].numApprovals > 0
       /\ \A c \in CtorInputs :
            QuorumRule(proposals[j + 1]) #
              QuorumRuleUnder(c[3], c[2], c[4], totalContributions,
                              proposals[j + 1])

(* C18 ------------------------------------------------------------------ *)
\* the addresses whose approval mark is set for a record
ApproversOf(marks, id) == {a \in AnyAddr : <<id, a>> \in marks}

\* in one step every executed project and proposal keeps its index, all its
\* fields (payload, numApprovals, weight, executed) and its approval marks
FrozenStep ==
  /\ \A i \in 1..Len(projects) :
       projects[i].executed =>
         /\ i <= Len(projects')
         /\ projects'[i] = projects[i]
         /\ ApproversOf(isApproveed', i - 1) = ApproversOf(isApproveed, i - 1)
  /\ \A i \in 1..Len(proposals) :
       proposals[i].executed =>
         /\ i <= Len(proposals')
         /\ proposals'[i] = proposals[i]
         /\ ApproversOf(isProposalApproveed', i - 1) =
              ApproversOf(isProposalApproveed, i - 1)

\* C18: once a project or proposal is executed, no later step (approve,
\* revoke, execute, deposit, any governance execution) changes its
\* numApprovals, weight, payload, executed flag or set of approval marks
C18_ExecutedFrozen == [][FrozenStep]_vars

\* an executed project and an executed removeMember proposal both carry the
\* approval of the member that the proposal removed
C18_Witness ==
  \E i \in 1..Len(projects), j \in 1..Len(proposals) :
    /\ projects[i].executed
    /\ proposals[j].executed
    /\ proposals[j].proposalType = "removeMember"
    /\ ~isMember[proposals[j].newMember]
    /\ <<i - 1, proposals[j].newMember>> \in isApproveed
    /\ <<j - 1, proposals[j].newMember>> \in isProposalApproveed
    /\ projects[i].numApprovals = Cardinality(ApproversOf(isApproveed, i - 1))
    /\ projects[i].weight > 0

(* C19 ------------------------------------------------------------------ *)
\* the payload of a project / proposal
ProjectPayload(project) == <<project.to, project.value, project.data>>
ProposalPayload(proposal) ==
  <<proposal.proposalType, proposal.newMember,
    proposal.newPercentageApprovalsRequired,
    proposal.newNumApprovalsRequired, proposal.newVotingByWeight>>

\* a member's submit call succeeds and changes exactly this: one record with
\* the given payload, executed=false, numApprovals=0, weight=0 is added at
\* the index that was the count before the call
SubmitAppends ==
  /\ \A a \in Members, p \in ProjectInputs :
       LET r == submitProject(State, a, p[1], p[2], "0x") IN
         /\ r.err = OK
         /\ Len(r.s.projects) = Len(projects) + 1
         /\ \A i \in 1..Len(projects) : r.s.projects[i] = projects[i]
         /\ r.s.projects[Len(projects) + 1] =
              [to |-> p[1], value |-> p[2], data |-> "0x",
               executed |-> FALSE, numApprovals |-> 0, weight |-> 0]
         /\ r.s = [State EXCEPT !.projects = r.s.projects]
  /\ \A a \in Members, p \in ProposalInputs \cup GovProposalInputs :
       LET r == submitProposal(State, a, p[1], p[2], p[3], p[4], p[5]) IN
         /\ r.err = OK
         /\ Len(r.s.proposals) = Len(proposals) + 1
         /\ \A i \in 1..Len(proposals) : r.s.proposals[i] = proposals[i]
         /\ r.s.proposals[Len(proposals) + 1] =
              [proposalType |-> p[1], newMember |-> p[2],
               newPercentageApprovalsRequired |-> p[3],
               newNumApprovalsRequired |-> p[4],
               newVotingByWeight |-> p[5],
               numApprovals |-> 0, weight |-> 0, executed |-> FALSE]
         /\ r.s = [State EXCEPT !.proposals = r.s.proposals]

\* in one step the logs never shrink, and every existing record keeps its
\* index and its payload
AppendOnlyStep ==
  /\ Len(projects') >= Len(projects)
  /\ Len(proposals') >= Len(proposals)
  /\ \A i \in 1..Len(projects) :
       ProjectPayload(projects'[i]) = ProjectPayload(projects[i])
  /\ \A i \in 1..Len(proposals) :
       ProposalPayload(proposals'[i]) = ProposalPayload(proposals[i])

\* C19: each successful submitProject / submitProposal adds exactly one
\* record, at the index equal to the previous count (0 for the first), with
\* executed=false, numApprovals=0 and weight=0; the counts never decrease,
\* existing records keep their index, and a record's payload never changes
C19_AppendOnly == [](SubmitAppends) /\ [][AppendOnlyStep]_vars

\* both logs hold a record that has since been approved and executed, and a
\* member is there to submit the next one
C19_Witness ==
  /\ Members # {}
  /\ \E i \in 1..Len(projects) :
       projects[i].executed /\ projects[i].numApprovals > 0
  /\ \E i \in 1..Len(proposals) :
       proposals[i].executed /\ proposals[i].numApprovals > 0

(* C20 ------------------------------------------------------------------ *)
\* C20: for every project and every proposal, numApprovals is the number of
\* addresses whose approval mark is set for it
C20_ApprovalCount ==
  /\ \A i \in 1..Len(projects) :
       projects[i].numApprovals = Cardinality(ApproversOf(isApproveed, i - 1))
  /\ \A i \in 1..Len(proposals) :
       proposals[i].numApprovals =
         Cardinality(ApproversOf(isProposalApproveed, i - 1))

\* a pending project counts two approvals, one of them of an address that has
\* since been removed from the members, and the removing proposal counts its
\* own approvals
C20_Witness ==
  \E i \in PendingProjects, j \in 1..Len(proposals) :
    /\ projects[i + 1].numApprovals = 2
    /\ proposals[j].executed
    /\ proposals[j].proposalType = "removeMember"
    /\ ~isMember[proposals[j].newMember]
    /\ <<i, proposals[j].newMember>> \in isApproveed
    /\ proposals[j].numApprovals > 0

(* C21 ------------------------------------------------------------------ *)
\* C21: a deposit by a member who has approved a project or proposal leaves
\* the weight (and every other field) of that record as it was, while the
\* member's contributionsOf and totalContributions grow by the deposit; and
\* the weight an approval adds is the member's contributionsOf at the moment
\* of the approval, whatever the member deposits afterwards
C21_WeightCapturedAtApproval ==
  /\ \A a \in Members, v \in DepositAmounts :
       LET r == Receive(State, a, v) IN
         /\ r.err = OK
         /\ r.s.contributionsOf[a] = contributionsOf[a] + v
         /\ r.s.totalContributions = totalContributions + v
         /\ \A i \in 1..Len(projects) :
              <<i - 1, a>> \in isApproveed =>
                r.s.projects[i].weight = projects[i].weight
         /\ \A i \in 1..Len(proposals) :
              <<i - 1, a>> \in isProposalApproveed =>
                r.s.proposals[i].weight = proposals[i].weight
         /\ r.s.projects = projects /\ r.s.proposals = proposals
  /\ \A a \in Members, i \in PendingProjects, v \in DepositAmounts :
       LET r1 == approveProject(State, a, i)
           r2 == Receive(r1.s, a, v)
       IN r1.err = OK =>
            r2.s.projects[i + 1].weight = projects[i + 1].weight + contributionsOf[a]
  /\ \A a \in Members, i \in PendingProposals, v \in DepositAmounts :
       LET r1 == approveProposal(State, a, i)
           r2 == Receive(r1.s, a, v)
       IN r1.err = OK =>
            r2.s.proposals[i + 1].weight =
              proposals[i + 1].weight + contributionsOf[a]

\* a member's approval is recorded on a pending project and on a pending
\* proposal with a weight below the member's present contribution: the member
\* deposited after approving
C21_Witness ==
  \E a \in Members, i \in PendingProjects, j \in PendingProposals :
    /\ ApproversOf(isApproveed, i) = {a}
    /\ ApproversOf(isProposalApproveed, j) = {a}
    /\ projects[i + 1].weight < contributionsOf[a]
    /\ proposals[j + 1].weight < contributionsOf[a]
    /\ proposals[j + 1].weight > 0

(* C22 ------------------------------------------------------------------ *)
\* member list, membership flags and quorum configuration of a state
Governance(s) ==
  <<s.members, s.isMember, s.percentageApprovalsRequired,
    s.numApprovalsRequired, s.votingByWeight>>

\* the outcomes of every call other than the two execute calls, by any sender
OtherCalls(a) ==
  {Receive(State, a, v) : v \in DepositAmounts}
  \cup {submitProject(State, a, p[1], p[2], "0x") : p \in ProjectInputs}
  \cup {approveProject(State, a, i) : i \in ProjectIds}
  \cup {revokeApproval(State, a, i) : i \in ProjectIds}
  \cup {submitProposal(State, a, p[1], p[2], p[3], p[4], p[5]) :
          p \in ProposalInputs}
  \cup {approveProposal(State, a, i) : i \in ProposalIds}

\* a failed call of any function changes nothing at all, and the calls other
\* than the execute calls leave members, isMember and the configuration
FailedAndOtherCallsKeepGovernance ==
  \A a \in Addr :
    /\ \A r \in OtherCalls(a) :
         /\ Governance(r.s) = Governance(State)
         /\ r.err # OK => r.s = State
    /\ \A i \in ProjectIds, run \in TargetRuns :
         LET r == executeProject(State, a, i, run) IN r.err # OK => r.s = State
    /\ \A i \in ProposalIds :
         LET r == executeProposal(State, a, i) IN r.err # OK => r.s = State

\* executeProject leaves members, isMember and the configuration
ExecuteProjectKeepsGovernance ==
  \A a \in Addr, i \in ProjectIds, run \in TargetRuns :
    Governance(executeProject(State, a, i, run).s) = Governance(State)

\* C22 as stated: no call other than executeProposal changes members,
\* isMember or the configuration, executeProject included
C22_AsStated == FailedAndOtherCallsKeepGovernance /\ ExecuteProjectKeepsGovernance

\* the target's code calls executeProposal during the external call
ExecutesProposal(run) ==
  \E k \in 1..Len(run.calls) : run.calls[k].fn = "executeProposal"

\* proposals whose executed flag the state s sets
NewlyExecutedProposals(s) ==
  {i \in 1..Len(s.proposals) :
     /\ s.proposals[i].executed
     /\ i <= Len(proposals) => ~proposals[i].executed}

\* executeProject leaves members, isMember and the configuration unless its
\* target is a contract that calls executeProposal during the external call
\* and that nested call executes a pending proposal
OnlyExecuteProposalGoverns ==
  /\ FailedAndOtherCallsKeepGovernance
  /\ \A a \in Addr, i \in ProjectIds, run \in TargetRuns :
       LET r == executeProject(State, a, i, run) IN
         Governance(r.s) # Governance(State) =>
           /\ projects[i + 1].to \in Contracts
           /\ isMember[projects[i + 1].to]
           /\ ExecutesProposal(run)
           /\ NewlyExecutedProposals(r.s) # {}

\* a step that changes members, isMember or the configuration is a
\* successful executeProposal of a member on a pending proposal, called in a
\* transaction or by the target of an executeProject during the external call
GovernanceStep ==
  Governance(State') # Governance(State) =>
    \/ \E a \in Members, i \in PendingProposals :
         /\ executeProposal(State, a, i).err = OK
         /\ State' = executeProposal(State, a, i).s
    \/ \E a \in Members, i \in PendingProjects, run \in TargetRuns :
         /\ ExecutesProposal(run)
         /\ executeProject(State, a, i, run) = Success(State')
         /\ NewlyExecutedProposals(State') # {}

\* C22 (amended): members, isMember, numApprovalsRequired,
\* percentageApprovalsRequired and votingByWeight change only in a successful
\* executeProposal, be it called in a transaction or by the target of an
\* executeProject during the external call; deposit, submitProject,
\* approveProject, revokeApproval, submitProposal, approveProposal, an
\* executeProject whose target makes no such call, and every failed call
\* leave them unchanged
C22_GovernanceFrame == [](OnlyExecuteProposalGoverns) /\ [][GovernanceStep]_vars

\* the members are no longer the deployment's while a project has been
\* submitted, approved and paid to a contract, a proposal has been executed
\* and deposits were made
C22_Witness ==
  /\ \A c \in CallbackCtorInputs : members # c[1]
  /\ \E i \in 1..Len(projects) : projects[i].executed /\ projects[i].to \in Contracts
  /\ \E i \in 1..Len(proposals) : proposals[i].executed
  /\ balance > 0

(* C23 ------------------------------------------------------------------ *)
\* C23: the member list holds no address twice, and an address is in the
\* list exactly when its isMember flag is set
C23_MembershipConsistent ==
  /\ \A k, l \in 1..Len(members) : members[k] = members[l] => k = l
  /\ \A a \in AnyAddr : isMember[a] <=> a \in ListedIn(members)

\* a member of the deployment was removed and added again, and now stands
\* last in the list
C23_Witness ==
  \E i, j \in 1..Len(proposals) :
    /\ proposals[i].executed /\ proposals[i].proposalType = "removeMember"
    /\ proposals[j].executed /\ proposals[j].proposalType = "addMember"
    /\ proposals[j].newMember = proposals[i].newMember
    /\ isMember[proposals[j].newMember]
    /\ Len(members) = 2
    /\ members[2] = proposals[j].newMember
    /\ members[1] # members[2]

(* C24 ------------------------------------------------------------------ *)
\* constructor arguments the constructor is to accept
ValidDeployment(ms, num, pct) ==
  /\ Len(ms) > 0
  /\ \A k, l \in 1..Len(ms) : ms[k] = ms[l] => k = l
  /\ \A k \in 1..Len(ms) : ms[k] # ZeroAddress
  /\ pct <= 100
  /\ num <= Len(ms)

\* the state a deployment is to start from
Deployed(ms, num, pct, byWeight) ==
  [members |-> ms, isMember |-> [a \in AnyAddr |-> a \in ListedIn(ms)],
   contributionsOf |-> [a \in AnyAddr |-> 0],
   totalContributions |-> 0,
   percentageApprovalsRequired |-> pct,
   numApprovalsRequired |-> num,
   votingByWeight |-> byWeight,
   isApproveed |-> {}, isProposalApproveed |-> {},
   projects |-> <<>>, proposals |-> <<>>, balance |-> 0]

\* C24: the constructor fails, creating no state, when the member list is
\* empty, holds an address twice or the zero address, when the percentage is
\* above 100 or the count above the number of members; otherwise it succeeds
\* with exactly the given members in the given order, the given thresholds
\* and mode, no records and zero contributions; every deployed contract
\* started from such a state and has since only received deposits
C24_ConstructorValidation ==
  /\ \A c \in DeployInputs :
       LET r == Constructor(c[1], c[2], c[3], c[4]) IN
         IF ValidDeployment(c[1], c[2], c[3])
         THEN r = Success(Deployed(c[1], c[2], c[3], c[4]))
         ELSE r.err # OK /\ r.s = EmptyState
  /\ \E c \in DeployInputs :
       /\ ValidDeployment(c[1], c[2], c[3])
       /\ [State EXCEPT !.balance = 0, !.totalContributions = 0,
                        !.contributionsOf = [a \in AnyAddr |-> 0]]
            = Deployed(c[1], c[2], c[3], c[4])

\* a contract deployed with the members in the order B, A, percentage 100 and
\* a count equal to the number of members, before any deposit
C24_Witness ==
  /\ members = <<"B", "A">>
  /\ percentageApprovalsRequired = 100
  /\ numApprovalsRequired = 2
  /\ votingByWeight
  /\ balance = 0 /\ totalContributions = 0
  /\ projects = <<>> /\ proposals = <<>>

(* C25 ------------------------------------------------------------------ *)
\* C25: every deposit, from a member or not, emits exactly one Deposit
\* notification, carrying the sender, the amount and the balance of the
\* contract after the deposit
C25_DepositEvent ==
  \A a \in Addr, v \in 1..MaxFunds :
    LET r == Receive(State, a, v)
        log == ReceiveEvents(State, a, v)
    IN /\ r.err = OK
       /\ Len(log) = 1
       /\ log[1] = [event |-> "Deposit", sender |-> a, amount |-> v,
                    balance |-> r.s.balance]
       /\ log[1].balance = balance + v

\* the contract holds funds, so that the balance after a deposit is not the
\* deposited amount, and there are members and non-members to deposit
C25_Witness ==
  /\ balance > 0
  /\ \E a \in Addr : isMember[a] /\ contributionsOf[a] > 0
  /\ \E a \in Addr : ~isMember[a]

(* C26 ------------------------------------------------------------------ *)
\* calls whose arithmetic leaves the word in the current state fail with the
\* arithmetic panic and change nothing: the product of the weight test, and
\* the weight subtraction of a revoke
OverflowInReach ==
  /\ (votingByWeight
        /\ totalContributions * percentageApprovalsRequired > MaxUint) =>
       /\ \A a \in Members, i \in PendingProjects, run \in TargetRuns :
            executeProject(State, a, i, run) = Revert(State, Panic)
       /\ \A a \in Members, i \in PendingProposals :
            executeProposal(State, a, i) = Revert(State, Panic)
  /\ \A a \in Members, i \in PendingProjects :
       (<<i, a>> \in isApproveed
          /\ projects[i + 1].weight < contributionsOf[a]) =>
         revokeApproval(State, a, i) = Revert(State, Panic)

\* the same at the end of the word: with a stored value set to its largest
\* (or, for a subtraction, to 0) the call that would pass it fails with the
\* panic and changes nothing, and the call that just reaches it succeeds
OverflowAtLimit ==
  /\ \A a \in Members, v \in DepositAmounts :
       LET atMax == [State EXCEPT !.contributionsOf[a] = MaxUint]
           totalAtMax == [State EXCEPT !.totalContributions = MaxUint]
           below == [State EXCEPT !.contributionsOf[a] = MaxUint - v,
                                  !.totalContributions = MaxUint - v]
       IN /\ Receive(atMax, a, v) = Revert(atMax, Panic)
          /\ Receive(totalAtMax, a, v) = Revert(totalAtMax, Panic)
          /\ Receive(below, a, v).err = OK
          /\ Receive(below, a, v).s.contributionsOf[a] = MaxUint
          /\ Receive(below, a, v).s.totalContributions = MaxUint
  /\ \A a \in Members, i \in PendingProjects :
       LET countAtMax == [State EXCEPT !.projects[i + 1].numApprovals = MaxUint]
           weightAtMax == [State EXCEPT !.projects[i + 1].weight = MaxUint]
           countAtZero == [State EXCEPT !.projects[i + 1].numApprovals = 0]
       IN /\ <<i, a>> \notin isApproveed =>
               /\ approveProject(countAtMax, a, i) = Revert(countAtMax, Panic)
               /\ contributionsOf[a] > 0 =>
                    approveProject(weightAtMax, a, i) = Revert(weightAtMax, Panic)
          /\ <<i, a>> \in isApproveed =>
               revokeApproval(countAtZero, a, i) = Revert(countAtZero, Panic)
  /\ \A a \in Members, i \in PendingProposals :
       LET countAtMax == [State EXCEPT !.proposals[i + 1].numApprovals = MaxUint]
           weightAtMax == [State EXCEPT !.proposals[i + 1].weight = MaxUint]
       IN <<i, a>> \notin isProposalApproveed =>
            /\ approveProposal(countAtMax, a, i) = Revert(countAtMax, Panic)
            /\ contributionsOf[a] > 0 =>
                 approveProposal(weightAtMax, a, i) = Revert(weightAtMax, Panic)

\* C26: every stored unsigned value stays within the word (nothing wraps
\* around), and a call whose addition, subtraction or multiplication would
\* leave the word fails and leaves the state unchanged
C26_CheckedArithmetic == TypeOK /\ OverflowInReach /\ OverflowAtLimit

\* weight mode with a product of the quorum test beyond the word, and a
\* pending project approved by a member whose contribution now exceeds the
\* project's weight
C26_Witness ==
  /\ votingByWeight
  /\ totalContributions * percentageApprovalsRequired > MaxUint
  /\ \E a \in Members, i \in PendingProjects :
       /\ <<i, a>> \in isApproveed
       /\ projects[i + 1].weight < contributionsOf[a]

(* C27 ------------------------------------------------------------------ *)
\* the calls on project txIndex that the executed flag guards
GuardedCalls(txIndex) ==
  {cb \in CallbackCalls :
     /\ cb.fn \in {"executeProject", "approveProject", "revokeApproval"}
     /\ cb.n = txIndex}

\* C27: when a member's executeProject passes the quorum test and makes the
\* external call to a contract, every call of the target back into
\* executeProject, approveProject or revokeApproval on the same id, made at
\* any point of its run, fails with "tx already executed" (or "not member"
\* when the target is no member at that point) and changes nothing; whether
\* the target then returns or reverts, the project's value has left the
\* contract at most once: on success the project is executed and the balance
\* fell by no more than the values of the projects the call executed, on
\* failure nothing changed
C27_ReentrancySafe ==
  \A a \in Members, i \in PendingProjects, run \in TargetRuns :
    LET project == projects[i + 1]
        during == DuringCall(State, i)
        r == executeProject(State, a, i, run)
    IN (ProjectQuorum(State, project) = OK
          /\ CallSucceeds(State, project)
          /\ project.to \in Contracts) =>
         /\ \A k \in 1..Len(run.calls) :
              LET sk == RunCallbacks(during, project.to, SubSeq(run.calls, 1, k - 1))
              IN run.calls[k] \in GuardedCalls(i) =>
                   NestedCall(sk, project.to, run.calls[k]) =
                     Revert(sk, IF sk.isMember[project.to]
                                THEN "tx already executed" ELSE "not member")
         /\ IF r.err = OK
            THEN /\ run.returns
                 /\ r.s.projects[i + 1] = [project EXCEPT !.executed = TRUE]
                 /\ balance - r.s.balance
                      <= NewlyPaid(projects, r.s.projects, Len(projects))
                 /\ (\A k \in 1..Len(run.calls) : run.calls[k] \in GuardedCalls(i)) =>
                      r.s = during
            ELSE r = Revert(State, "tx failed") /\ ~run.returns

\* a pending project at quorum pays a contract that is a member, and the
\* contract holds at least twice the project's value
C27_Witness ==
  /\ Members # {}
  /\ \E i \in PendingProjects :
       /\ ProjectQuorum(State, projects[i + 1]) = OK
       /\ projects[i + 1].to \in Contracts
       /\ isMember[projects[i + 1].to]
       /\ projects[i + 1].value > 0
       /\ balance >= 2 * projects[i + 1].value

(* C28 ------------------------------------------------------------------ *)
\* the sum of the values of the executed projects
ExecutedValue ==
  SumOver([i \in 1..Len(projects) |->
             IF projects[i].executed THEN projects[i].value ELSE 0],
          1..Len(projects))

\* a pending project asking for more than the balance cannot be executed,
\* and one that is executed takes its value off the balance: the balance
\* after the call is the balance before, less the values of the projects the
\* call executed, plus the deposits received during the call (none when the
\* target is an account without code)
ExecutePaysOnce ==
  \A a \in Members, i \in PendingProjects, run \in TargetRuns :
    LET r == executeProject(State, a, i, run) IN
      /\ projects[i + 1].value > balance => (r.err # OK /\ r.s = State)
      /\ r.err = OK =>
           /\ r.s.balance =
                balance - NewlyPaid(projects, r.s.projects, Len(projects))
                + DepositsDuring(i, run)
           /\ projects[i + 1].to \notin Contracts =>
                r.s.balance = balance - projects[i + 1].value

\* the claim as it is worded: the balance is the deposits received less the
\* values of the executed projects, it is never negative, and a project
\* asking for more than the balance cannot become executed while an executed
\* one has taken its value off the balance
C28_AsStated ==
  /\ balance = received - ExecutedValue
  /\ balance >= 0
  /\ ExecutePaysOnce

\* the balance is the deposits received through receive(), plus the wei that
\* reached the address without a call, less the values of the executed
\* projects; it is never negative and never below the deposits less the
\* executed values, and equals them while no wei was forced in
TreasuryInvariant ==
  /\ balance = received + forced - ExecutedValue
  /\ balance >= 0
  /\ forced >= 0
  /\ received >= totalContributions
  /\ ExecutePaysOnce

\* in one step the balance, the deposits and the value paid by executed
\* projects stay; or a deposit adds its amount to the balance and to the
\* deposits; or wei reaches the address without a call and adds to the
\* balance only; or a project is executed whose value the balance covers and
\* the balance falls by the values of the projects executed in the step,
\* less the deposits received during the call
TreasuryStep ==
  \/ /\ balance' = balance
     /\ ExecutedValue' = ExecutedValue
     /\ received' = received
     /\ forced' = forced
  \/ /\ \E a \in Addr, v \in DepositAmounts :
          /\ State' = Receive(State, a, v).s
          /\ balance' = balance + v
          /\ received' = received + v
     /\ ExecutedValue' = ExecutedValue
     /\ forced' = forced
  \/ /\ \E v \in DepositAmounts :
          /\ State' = [State EXCEPT !.balance = balance + v]
          /\ forced' = forced + v
     /\ ExecutedValue' = ExecutedValue
     /\ received' = received
  \/ \E a \in Members, i \in PendingProjects, run \in TargetRuns :
       /\ executeProject(State, a, i, run) = Success(State')
       /\ projects[i + 1].value <= balance
       /\ projects'[i + 1].executed
       /\ received' = received + DepositsDuring(i, run)
       /\ forced' = forced
       /\ balance' + ExecutedValue' =
            balance + ExecutedValue + DepositsDuring(i, run)

\* C28: the balance starts at 0 and in every reachable state is the deposits
\* received through receive() (from members and non-members, sent as a
\* transaction or during an external call), plus the wei that reached the
\* address without a call, less the values of the executed projects; so it
\* is at least the deposits less the executed values, and equal to them
\* while no wei was forced in.  It is never negative, a project whose value
\* exceeds the balance cannot become executed, and the value of each executed
\* project left the balance once, in the step that executed it
C28_TreasuryAccounting ==
  /\ balance = 0 /\ received = 0 /\ forced = 0 /\ ExecutedValue = 0
  /\ [](TreasuryInvariant)
  /\ [][TreasuryStep]_vars

\* a project with a positive value has been paid out of deposits of a member
\* and of a non-member, wei has reached the address without a call, and
\* funds remain
C28_Witness ==
  /\ ExecutedValue > 0
  /\ balance > 0
  /\ totalContributions > 0
  /\ received > totalContributions
  /\ forced > 0

(* C29 ------------------------------------------------------------------ *)
\* C29: the weight of every project and proposal is at most the sum of the
\* present contributionsOf of the addresses whose approval mark is set for
\* it, and so at most totalContributions
C29_WeightBound ==
  /\ \A i \in 1..Len(projects) :
       /\ projects[i].weight <=
            SumOver(contributionsOf, ApproversOf(isApproveed, i - 1))
       /\ projects[i].weight <= totalContributions
  /\ \A i \in 1..Len(proposals) :
       /\ proposals[i].weight <=
            SumOver(contributionsOf, ApproversOf(isProposalApproveed, i - 1))
       /\ proposals[i].weight <= totalContributions

\* a pending project carries the weight of its one approver while another
\* address holds a contribution too, and a proposal carries the weight of an
\* approver who has since been removed
C29_Witness ==
  /\ \E i \in PendingProjects, a, b \in Addr :
       /\ a # b
       /\ ApproversOf(isApproveed, i) = {a}
       /\ projects[i + 1].weight > 0
       /\ projects[i + 1].weight = contributionsOf[a]
       /\ contributionsOf[b] > 0
  /\ \E j \in 1..Len(proposals), c \in Addr :
       /\ ~isMember[c]
       /\ <<j - 1, c>> \in isProposalApproveed
       /\ proposals[j].weight > 0

(* C30 ------------------------------------------------------------------ *)
\* weight mode with a percentage of 100 or more
Locked == votingByWeight /\ percentageApprovalsRequired >= 100

\* no executeProject or executeProposal call of any sender on any id succeeds
NoExecuteSucceeds ==
  /\ \A a \in Addr, i \in ProjectIds, run \in TargetRuns :
       executeProject(State, a, i, run).err # OK
  /\ \A a \in Addr, i \in ProposalIds : executeProposal(State, a, i).err # OK

\* a step from a locked state ends in a locked state with the same
\* configuration and members and executes nothing
LockedStep ==
  Locked =>
    /\ Locked'
    /\ Config' = Config
    /\ members' = members /\ isMember' = isMember
    /\ \A i \in 1..Len(projects) : projects'[i].executed = projects[i].executed
    /\ \A i \in 1..Len(proposals) : proposals'[i].executed = proposals[i].executed

\* C30: in weight mode with percentageApprovalsRequired >= 100 or with
\* totalContributions = 0 no executeProject or executeProposal call succeeds,
\* whatever the approvals; with percentageApprovalsRequired >= 100 every
\* later state is locked as well: the configuration never changes again and
\* no project or proposal is ever executed
C30_WeightModeLockOut ==
  /\ []((votingByWeight
           /\ (percentageApprovalsRequired >= 100 \/ totalContributions = 0))
          => NoExecuteSucceeds)
  /\ [][LockedStep]_vars

\* weight mode with percentage exactly 100: a project and a changeParameter
\* proposal are pending, each approved by every member and carrying the
\* whole of totalContributions as weight
C30_Witness ==
  /\ votingByWeight
  /\ percentageApprovalsRequired = 100
  /\ totalContributions > 0
  /\ \E i \in PendingProjects :
       /\ projects[i + 1].weight = totalContributions
       /\ projects[i + 1].numApprovals = Len(members)
       /\ projects[i + 1].value <= balance
       /\ projects[i + 1].to \notin Rejecting
  /\ \E j \in PendingProposals :
       /\ proposals[j + 1].proposalType = "changeParameter"
       /\ proposals[j + 1].weight = totalContributions
       /\ proposals[j + 1].numApprovals = Len(members)


(* C31 ------------------------------------------------------------------ *)
\* the bounds the constructor enforces, read on a state: some member is
\* listed and numApprovalsRequired is at most the number of listed members
SanityBounds(s) ==
  /\ Len(s.members) > 0
  /\ s.numApprovalsRequired <= Len(s.members)

\* the proposal types whose execution is not validated against the bounds
Unvalidated == {"removeMember", "changeParameter"}

\* whether the bounds hold once the pending proposal executes, read off the
\* proposal and the state it executes in
BoundsAfter(proposal) ==
  IF proposal.proposalType = "addMember"
  THEN numApprovalsRequired <= Len(members) + 1
  ELSE IF proposal.proposalType = "removeMember"
  THEN Len(members) - 1 > 0 /\ numApprovalsRequired <= Len(members) - 1
  ELSE IF proposal.proposalType = "changeParameter"
  THEN Len(members) > 0 /\ proposal.newNumApprovalsRequired <= Len(members)
  ELSE SanityBounds(State)

\* C31 as stated: in every reachable state some member is listed and
\* numApprovalsRequired is at most the number of members
C31_AsStated == SanityBounds(State)

\* C31, amended: the bounds hold from construction as long as no removeMember
\* and no changeParameter proposal has executed.  Neither is validated: a
\* removeMember at quorum naming a member executes even when it leaves fewer
\* members than numApprovalsRequired or no member at all, shortening the list
\* by one and keeping numApprovalsRequired; a changeParameter at quorum
\* executes whatever count it carries and installs it.  After an execution the
\* bounds hold exactly when the resulting list is non-empty and at least as
\* long as the resulting numApprovalsRequired.
C31_BoundsUnderGovernance ==
  /\ (\A k \in 1..Len(proposals) :
        proposals[k].executed => proposals[k].proposalType \notin Unvalidated)
       => SanityBounds(State)
  /\ \A a \in Members, i \in PendingProposals :
       LET proposal == proposals[i + 1]
           r == executeProposal(State, a, i) IN
         QuorumRule(proposal) /\ ProposalEffectApplies(proposal) =>
           /\ r.err = OK
           /\ proposal.proposalType = "removeMember" =>
                /\ Len(r.s.members) = Len(members) - 1
                /\ r.s.numApprovalsRequired = numApprovalsRequired
           /\ proposal.proposalType = "changeParameter" =>
                /\ r.s.members = members
                /\ r.s.numApprovalsRequired = proposal.newNumApprovalsRequired
           /\ SanityBounds(r.s) <=> BoundsAfter(proposal)

\* the last member has been removed by an executed removeMember proposal
C31_Witness ==
  /\ members = <<>>
  /\ Members = {}
  /\ \E k \in 1..Len(proposals) :
       proposals[k].executed /\ proposals[k].proposalType = "removeMember"


(* C32 ------------------------------------------------------------------ *)
\* count mode with a threshold of zero
ZeroThreshold == ~votingByWeight /\ numApprovalsRequired = 0

\* C32 as stated: under a zero count threshold every member's execute call
\* on a pending project or proposal without approvals succeeds
C32_AsStated ==
  ZeroThreshold =>
    \A a \in Members :
      /\ \A i \in PendingProjects :
           projects[i + 1].numApprovals = 0 =>
             \A run \in TargetRuns :
               LET r == executeProject(State, a, i, run) IN
                 r.err = OK /\ r.s.projects[i + 1].executed
      /\ \A i \in PendingProposals :
           proposals[i + 1].numApprovals = 0 =>
             LET r == executeProposal(State, a, i) IN
               r.err = OK /\ r.s.proposals[i + 1].executed

\* C32, amended: under a zero count threshold the quorum test stops no
\* execute call: a member's executeProject on a pending project, approved or
\* not, succeeds exactly when the external call succeeds and fails with
\* "tx failed" otherwise; a member's executeProposal on a pending proposal
\* succeeds exactly when its effect applies and fails with the member error
\* otherwise.  A successful call sets executed.
C32_ZeroThreshold ==
  ZeroThreshold =>
    \A a \in Members :
      /\ \A i \in PendingProjects, run \in TargetRuns :
           LET r == executeProject(State, a, i, run) IN
             /\ r.err = IF CallReturns(State, projects[i + 1], run)
                        THEN OK ELSE "tx failed"
             /\ r.err = OK => r.s.projects[i + 1].executed
      /\ \A i \in PendingProposals :
           LET proposal == proposals[i + 1]
               r == executeProposal(State, a, i) IN
             /\ r.err =
                  IF ProposalEffectApplies(proposal) THEN OK
                  ELSE IF proposal.proposalType = "addMember"
                       THEN "member already exists"
                       ELSE "member does not exist"
             /\ r.err = OK => r.s.proposals[i + 1].executed

\* under a zero count threshold a project and a proposal have been executed
\* that nobody approved
C32_Witness ==
  /\ ZeroThreshold
  /\ \E i \in 1..Len(projects) :
       projects[i].executed /\ projects[i].numApprovals = 0
  /\ \E i \in 1..Len(proposals) :
       proposals[i].executed /\ proposals[i].numApprovals = 0


(* C33 ------------------------------------------------------------------ *)
\* the calls of sender on project txIndex and proposal proposalId that need
\* membership
RecordCalls(s, sender, txIndex, proposalId) ==
  { approveProject(s, sender, txIndex), revokeApproval(s, sender, txIndex),
    approveProposal(s, sender, proposalId),
    executeProposal(s, sender, proposalId) }
  \cup { executeProject(s, sender, txIndex, run) : run \in PlainRuns }

\* a pending record the removed member approved, whose quorum rests on that
\* approval: without the member's share the test of the current mode fails
RestsOn(rec, share) ==
  /\ QuorumRule(rec)
  /\ ~QuorumRule([rec EXCEPT !.numApprovals = @ - 1, !.weight = @ - share])

\* C33: a successful executeProposal of a removeMember proposal for M leaves
\* every project, every approval mark of projects and of proposals, and every
\* other proposal as it was (the executed proposal changes in its executed
\* flag only), so that the records M approved keep M's mark and M's share in
\* numApprovals and weight.  Afterwards the quorum test of every pending
\* record gives what it gave before and a remaining member's executeProject
\* ends as it would have ended before, while every call of M that needs
\* membership, revokeApproval included, fails with "not member".
C33_RemovedApprovalsPersist ==
  \A a \in Members, i \in PendingProposals :
    LET proposal == proposals[i + 1]
        M == proposal.newMember
        r == executeProposal(State, a, i) IN
      proposal.proposalType = "removeMember" /\ r.err = OK =>
        /\ ~r.s.isMember[M]
        /\ r.s.projects = projects
        /\ r.s.isApproveed = isApproveed
        /\ r.s.isProposalApproveed = isProposalApproveed
        /\ r.s.proposals = [proposals EXCEPT ![i + 1].executed = TRUE]
        /\ \A j \in PendingProjects :
             /\ ProjectQuorum(r.s, r.s.projects[j + 1])
                  = ProjectQuorum(State, projects[j + 1])
             /\ \A b \in Members \ {M}, run \in PlainRuns :
                  executeProject(r.s, b, j, run).err
                    = executeProject(State, b, j, run).err
        /\ \A k \in PendingProposals \ {i} :
             ProposalQuorum(r.s, r.s.proposals[k + 1])
               = ProposalQuorum(State, proposals[k + 1])
        /\ \A j \in ProjectIds, k \in ProposalIds :
             \A c \in RecordCalls(r.s, M, j, k) :
               c.err = "not member" /\ c.s = r.s

\* B has been removed by an executed proposal while a project and a proposal
\* that B approved are pending; their quorum rests on B's approval, B cannot
\* revoke it, and the remaining member executes both
C33_Witness ==
  /\ ~isMember["B"]
  /\ \E k \in 1..Len(proposals) :
       /\ proposals[k].executed
       /\ proposals[k].proposalType = "removeMember"
       /\ proposals[k].newMember = "B"
  /\ \E j \in PendingProjects, k \in PendingProposals :
       /\ <<j, "B">> \in isApproveed
       /\ <<k, "B">> \in isProposalApproveed
       /\ RestsOn(projects[j + 1], contributionsOf["B"])
       /\ RestsOn(proposals[k + 1], contributionsOf["B"])
       /\ revokeApproval(State, "B", j).err = "not member"
       /\ executeProject(State, "A", j, Quiet).err = OK
       /\ executeProposal(State, "A", k).err = OK


(* C34 ------------------------------------------------------------------ *)
\* the proposal types executeProposal compares against
KnownTypes == {"addMember", "removeMember", "changeParameter"}

\* C34: submitProposal stores whatever type string it is given, and a
\* member's executeProposal on a pending proposal of a type other than
\* "addMember", "removeMember" and "changeParameter" succeeds once quorum is
\* met: the proposal is marked executed and nothing else changes, so the
\* member set and the three configuration values stay as they were.  Below
\* quorum the call fails with the quorum error like any other.
C34_UnrecognisedKind ==
  /\ \A a \in Members, p \in MembershipProposalInputs :
       LET r == submitProposal(State, a, p[1], p[2], p[3], p[4], p[5]) IN
         /\ r.err = OK
         /\ r.s.proposals[Len(r.s.proposals)].proposalType = p[1]
  /\ \A a \in Members, i \in PendingProposals :
       LET proposal == proposals[i + 1]
           r == executeProposal(State, a, i) IN
         proposal.proposalType \notin KnownTypes =>
           IF QuorumRule(proposal)
           THEN /\ r.err = OK
                /\ r.s = [State EXCEPT !.proposals[i + 1].executed = TRUE]
                /\ Governance(r.s) = Governance(State)
           ELSE r.err = QuorumNotMet("proposal") /\ r.s = State

\* a "changeVotingMethod" proposal asking for weight mode has been executed
\* and the contract is in count mode under the deployment's thresholds
C34_Witness ==
  /\ \E k \in 1..Len(proposals) :
       /\ proposals[k].executed
       /\ proposals[k].proposalType = "changeVotingMethod"
       /\ proposals[k].newVotingByWeight
       /\ \A j \in 1..Len(proposals) : j # k => ~proposals[j].executed
  /\ ~votingByWeight
  /\ \E c \in MembershipCtorInputs :
       /\ Config = <<c[3], c[2], c[4]>>
       /\ members = c[1]


(* C35 ------------------------------------------------------------------ *)
\* the weight test on a record under a total of contributions
WeightTest(rec, total) ==
  rec.weight > (total * percentageApprovalsRequired) \div 100

\* a member's deposit after which a pending record that passes the weight
\* test no longer passes it
Destabilises(rec, value) ==
  /\ votingByWeight
  /\ WeightTest(rec, totalContributions)
  /\ ~WeightTest(rec, totalContributions + value)

\* C35: in weight mode a member's deposit leaves every record's weight as it
\* is and raises totalContributions by the amount, so a pending record that
\* passed the weight test passes it afterwards only if its weight also
\* exceeds the share of the larger total.  When it does not, with no
\* revocation and no configuration change in between, a member's execute
\* call that succeeded before the deposit fails after it with the
\* quorum-not-met error of weight mode; a deposit never turns a failing
\* weight test into a passing one.
C35_UnstableUnderDeposits ==
  votingByWeight =>
    \A m \in Members, v \in DepositAmounts :
      LET d == Receive(State, m, v) IN
        d.err = OK =>
          /\ d.s.projects = projects /\ d.s.proposals = proposals
          /\ Config = <<d.s.percentageApprovalsRequired,
                        d.s.numApprovalsRequired, d.s.votingByWeight>>
          /\ d.s.totalContributions = totalContributions + v
          /\ \A a \in Members, i \in PendingProjects :
               LET rec == projects[i + 1] IN
                 /\ Destabilises(rec, v) =>
                      /\ CallSucceeds(State, rec) =>
                           executeProject(State, a, i, Quiet).err = OK
                      /\ \A run \in TargetRuns :
                           executeProject(d.s, a, i, run).err
                             = "cannot execute tx - voting by weight"
                 /\ ProjectQuorum(d.s, rec) = OK => ProjectQuorum(State, rec) = OK
          /\ \A a \in Members, i \in PendingProposals :
               LET rec == proposals[i + 1] IN
                 /\ Destabilises(rec, v) =>
                      /\ ProposalEffectApplies(rec) =>
                           executeProposal(State, a, i).err = OK
                      /\ executeProposal(d.s, a, i).err
                           = "cannot execute proposal - voting by weight"
                 /\ ProposalQuorum(d.s, rec) = OK => ProposalQuorum(State, rec) = OK

\* weight mode at 50 percent: a project that A alone approved is executable,
\* and would no longer be after a deposit of B; the same holds of a proposal
C35_Witness ==
  /\ votingByWeight /\ percentageApprovalsRequired = 50
  /\ \E i \in PendingProjects :
       /\ ApproversOf(isApproveed, i) = {"A"}
       /\ executeProject(State, "A", i, Quiet).err = OK
       /\ Receive(State, "B", 1).err = OK
       /\ executeProject(Receive(State, "B", 1).s, "A", i, Quiet).err
            = "cannot execute tx - voting by weight"
  /\ \E i \in PendingProposals :
       /\ executeProposal(State, "A", i).err = OK
       /\ executeProposal(Receive(State, "B", 1).s, "A", i).err
            = "cannot execute proposal - voting by weight"


(* C36 ------------------------------------------------------------------ *)
\* the weight test without the truncating division
ExactTest(rec) ==
  rec.weight * 100 > totalContributions * percentageApprovalsRequired

\* C36: for every weight, total of contributions and percentage whose
\* product fits the word, the test of executeProject and of executeProposal,
\* weight > floor(totalContributions * percentageApprovalsRequired / 100),
\* passes exactly when weight * 100 >
\* totalContributions * percentageApprovalsRequired: truncating the quotient
\* admits no record the exact comparison rejects and rejects none it admits
C36_TruncationExact ==
  votingByWeight /\ totalContributions * percentageApprovalsRequired <= MaxUint =>
    /\ \A i \in PendingProjects :
         /\ ProjectQuorum(State, projects[i + 1]) = OK <=> ExactTest(projects[i + 1])
         /\ \A a \in Members :
              executeProject(State, a, i, Quiet).err = OK
                <=> ExactTest(projects[i + 1])
    /\ \A i \in PendingProposals :
         ProposalQuorum(State, proposals[i + 1]) = OK <=> ExactTest(proposals[i + 1])

\* a project has been executed whose weight is the least one above a
\* threshold that the division truncated
C36_Witness ==
  /\ votingByWeight
  /\ (totalContributions * percentageApprovalsRequired) % 100 # 0
  /\ \E i \in 1..Len(projects) :
       /\ projects[i].executed
       /\ projects[i].weight =
            (totalContributions * percentageApprovalsRequired) \div 100 + 1


(* C37 ------------------------------------------------------------------ *)
\* the approval ledger of the projects, and that of the proposals
ProjectLedger(s) == <<s.projects, s.isApproveed>>
ProposalLedger(s) == <<s.proposals, s.isProposalApproveed>>

\* C37 as stated: executeProject, by any sender on any id and whatever the
\* target does, leaves every proposal and every approval mark of proposals
\* unchanged
C37_AsStated ==
  \A a \in Addr, i \in ProjectIds, run \in TargetRuns :
    ProposalLedger(executeProject(State, a, i, run).s) = ProposalLedger(State)

\* the target's code calls one of the proposal functions during the external
\* call
CallsProposals(run) ==
  \E k \in 1..Len(run.calls) :
    run.calls[k].fn \in {"submitProposal", "approveProposal", "executeProposal"}

\* C37 (amended): approveProject and revokeApproval, by any sender on any id,
\* leave every proposal (numApprovals, weight, executed) and every approval
\* mark of proposals unchanged, and so does executeProject unless its target
\* is a member contract that calls submitProposal, approveProposal or
\* executeProposal during the external call; approveProposal leaves every
\* project and every approval mark of projects unchanged, also when a project
\* and a proposal have the same id: a member's mark on proposal i does not
\* count as a mark on project i, nor the other way round
C37_IndependentLedgers ==
  /\ \A a \in Addr, i \in ProjectIds :
       /\ ProposalLedger(approveProject(State, a, i).s) = ProposalLedger(State)
       /\ ProposalLedger(revokeApproval(State, a, i).s) = ProposalLedger(State)
       /\ \A run \in TargetRuns :
            LET r == executeProject(State, a, i, run) IN
              ProposalLedger(r.s) # ProposalLedger(State) =>
                /\ projects[i + 1].to \in Contracts
                /\ isMember[projects[i + 1].to]
                /\ CallsProposals(run)
  /\ \A a \in Addr, i \in ProposalIds :
       ProjectLedger(approveProposal(State, a, i).s) = ProjectLedger(State)
  /\ \A a \in Members :
       /\ \A i \in PendingProjects :
            /\ approveProject(State, a, i).err = "tx already approved"
                 <=> <<i, a>> \in isApproveed
            /\ revokeApproval(State, a, i).err = "tx not approved"
                 <=> <<i, a>> \notin isApproveed
       /\ \A i \in PendingProposals :
            approveProposal(State, a, i).err = "proposal already approved"
              <=> <<i, a>> \in isProposalApproveed

\* project 0 and proposal 0 are pending while a project that paid the member
\* contract T is executed; A approved the proposal only and can approve the
\* project, T approved the project only, during the external call, and can
\* approve the proposal
C37_Witness ==
  /\ 0 \in PendingProjects /\ 0 \in PendingProposals
  /\ \E j \in 1..Len(projects) : projects[j].executed /\ projects[j].to = "T"
  /\ ApproversOf(isProposalApproveed, 0) = {"A"}
  /\ ApproversOf(isApproveed, 0) = {"T"}
  /\ approveProject(State, "A", 0).err = OK
  /\ approveProposal(State, "T", 0).err = OK
  /\ revokeApproval(State, "A", 0).err = "tx not approved"


(* C38 ------------------------------------------------------------------ *)
\* project txIndex has been submitted / has been executed
Submitted(txIndex) == txExists(State, txIndex)
Executed(txIndex) == txExists(State, txIndex) /\ projects[txIndex + 1].executed

\* the external call of the submitted project would succeed now, the code of
\* the target doing what run says
CallWouldSucceed(txIndex, run) ==
  txExists(State, txIndex) /\ CallReturns(State, projects[txIndex + 1], run)

\* a submitted project that is not executed and whose call would succeed
\* whatever the target does
Waiting(txIndex) ==
  /\ Submitted(txIndex)
  /\ ~Executed(txIndex)
  /\ \A run \in RunsOfTarget(txIndex) : CallWouldSucceed(txIndex, run)

\* a step in which an approval of some project is withdrawn
Revocation ==
  \E i \in 1..Len(projects) :
    /\ i <= Len(projects')
    /\ projects'[i].numApprovals < projects[i].numApprovals

\* nothing but the calls on a project changes what its execution would do: a
\* pending project that a member can execute can still be executed after any
\* deposit
WaitingKeepsExecutable ==
  \A a \in Members, i \in PendingProjects, run \in TargetRuns :
    executeProject(State, a, i, run).err = OK =>
      \A b \in Addr, v \in DepositAmounts :
        executeProject(Receive(State, b, v).s, a, i, run).err = OK

\* C38 as stated: in count mode with numApprovalsRequired at most the number
\* of members and no proposal executed, under fair approveProject and
\* executeProject calls every submitted project whose external call succeeds,
\* whatever its target does, is eventually executed
C38_AsStated ==
  \A i \in ProjectIds : []<>(~Waiting(i))

\* C38, amended: in count mode with numApprovalsRequired at most the number
\* of members and no proposal executed, under fair approveProject and
\* executeProject calls every submitted project whose external call succeeds,
\* whatever its target does, is eventually executed unless approvals keep
\* being revoked; and a pending project that can be executed stays
\* executable whatever is deposited in the meantime
C38_Progress ==
  /\ [](WaitingKeepsExecutable)
  /\ \A i \in ProjectIds : []<><<Revocation>>_vars \/ []<>(~Waiting(i))

\* a project has been paid under a threshold that both members had to meet
C38_Witness ==
  /\ ~votingByWeight /\ numApprovalsRequired = Len(members)
  /\ proposals = <<>>
  /\ \E i \in ProjectIds :
       /\ Executed(i)
       /\ projects[i + 1].numApprovals = numApprovalsRequired
       /\ projects[i + 1].value > 0

====
